---------------------------- MODULE Spec2Model ----------------------------
(***************************************************************************)
(* AndicBlue Ventas: the order / payment / inventory ledger of              *)
(* src/andicblue_ventas.py as a state machine.                              *)
(*                                                                         *)
(* The tables (Clientes, Pedidos, Pedidos_detalle, Inventario, FlujoCaja)   *)
(* are the DataFrames the business functions load, change and save.  Spec   *)
(* models the configuration in which Google Sheets is disabled (GS_CLIENT   *)
(* is None): load_df then returns the local CSV, every save writes it, and  *)
(* the cache is flushed after every mutation, so each operation is one      *)
(* read-modify-write of the tables.  Timestamps (Fecha) and the customer's  *)
(* name are not modelled; amounts are integers (the code's floats hold      *)
(* integers far below 2^53 exactly).                                        *)
(*                                                                         *)
(* Product names are strings; Spell gives each name of the model's          *)
(* universe as its sequence of Unicode code points, on which                *)
(* canonical_product_name works as the Python code does.                    *)
(***************************************************************************)
EXTENDS Integers, Sequences, FiniteSets, TLC

VARIABLES
    clientes,   \* Clientes: set of "ID Cliente"
    pedidos,    \* Pedidos: sequence of order headers (DataFrame rows)
    detalle,    \* Pedidos_detalle: sequence of order lines
    inv,        \* Inventario: sequence of rows [Producto, Stock]
    flujo,      \* FlujoCaja: sequence of cash-flow rows
    last,       \* the last call: its name, order id, amount, result, whether it raised
    usados,     \* history: the ids create_order_with_details has returned
    inicial,    \* history: per canonical product, the stock the program started with
    neto,       \* history: per canonical product, the net sum of the manual adjustments
    acum,       \* history: per order, prod_now / domicilio_now summed since its lines were last set
    snap,       \* history: per order, the stock before its creation while nothing else touched its products
    gastos,     \* Gastos: sequence of expense rows
    hoja,       \* the Google Sheets spreadsheet: its worksheets and the mutations made so far
    ses,        \* two sessions between the loads and the saves of a mutation, and what they returned
    rt,         \* a call of safe_read_sheet_to_df / safe_write_df_to_sheet in progress
    fac,        \* the invoice counters, the lock file and the calls of get_next_invoice_number
    nom         \* a raw product name and what canonical_product_name makes of it

vars == <<clientes, pedidos, detalle, inv, flujo, last, usados, inicial, neto, acum, snap,
          gastos, hoja, ses, rt, fac, nom>>

\* The tables and the history of the calls on them
tablas == <<clientes, pedidos, detalle, inv, flujo, last, usados, inicial, neto, acum, snap,
            gastos>>

\* The variables the order functions do not touch while Google Sheets is
\* disabled and one session runs
fuera == <<hoja, ses, rt, fac, nom>>

----------------------------------------------------------------------------
(* Bounds of the model *)

MaxId == 2           \* order ids 1..MaxId
MaxPagos == 2        \* rows of FlujoCaja
MaxAjuste == 1       \* sum over the products of |net manual adjustment|

----------------------------------------------------------------------------
(* CONFIG / CONSTANTS *)

DOMICILIO_COST == 3000

\* PRODUCTOS.keys() in the dict's order
ProductKeys ==
    << "Docena de Arándanos 125g", "Arandanos_125g", "Arandanos_250g",
       "Arandanos_500g", "Kilo_industrial", "Mermelada_azucar",
       "Mermelada_sin_azucar" >>

PRODUCTOS ==
    ("Docena de Arándanos 125g" :> 52500) @@
    ("Arandanos_125g" :> 5000) @@
    ("Arandanos_250g" :> 10000) @@
    ("Arandanos_500g" :> 20000) @@
    ("Kilo_industrial" :> 30000) @@
    ("Mermelada_azucar" :> 16000) @@
    ("Mermelada_sin_azucar" :> 20000)

\* The names of the model's universe as sequences of code points.
Spell ==
    ("Docena de Arándanos 125g" :> <<68, 111, 99, 101, 110, 97, 32, 100, 101, 32, 65, 114, 225, 110, 100, 97, 110, 111, 115, 32, 49, 50, 53, 103>>) @@
    ("Arandanos_125g" :> <<65, 114, 97, 110, 100, 97, 110, 111, 115, 95, 49, 50, 53, 103>>) @@
    ("Arandanos_250g" :> <<65, 114, 97, 110, 100, 97, 110, 111, 115, 95, 50, 53, 48, 103>>) @@
    ("Arandanos_500g" :> <<65, 114, 97, 110, 100, 97, 110, 111, 115, 95, 53, 48, 48, 103>>) @@
    ("Kilo_industrial" :> <<75, 105, 108, 111, 95, 105, 110, 100, 117, 115, 116, 114, 105, 97, 108>>) @@
    ("Mermelada_azucar" :> <<77, 101, 114, 109, 101, 108, 97, 100, 97, 95, 97, 122, 117, 99, 97, 114>>) @@
    ("Mermelada_sin_azucar" :> <<77, 101, 114, 109, 101, 108, 97, 100, 97, 95, 115, 105, 110, 95, 97, 122, 117, 99, 97, 114>>) @@
    ("arandanos 125g" :> <<97, 114, 97, 110, 100, 97, 110, 111, 115, 32, 49, 50, 53, 103>>) @@
    ("Pulpa" :> <<80, 117, 108, 112, 97>>)

Names == DOMAIN Spell

----------------------------------------------------------------------------
(* Python string operations on sequences of code points *)

\* str.strip(): the white space Python strips
IsSpace(c) == c \in {9, 10, 11, 12, 13, 28, 29, 30, 31, 32, 133, 160}

RECURSIVE LStrip(_)
LStrip(s) == IF s # <<>> /\ IsSpace(Head(s)) THEN LStrip(Tail(s)) ELSE s

RECURSIVE RStrip(_)
RStrip(s) ==
    IF s # <<>> /\ IsSpace(s[Len(s)]) THEN RStrip(SubSeq(s, 1, Len(s) - 1)) ELSE s

Strip(s) == RStrip(LStrip(s))

\* str.lower() on the letters A-Z and the Latin-1 capitals
Lower(c) ==
    IF c \in 65..90 \/ (c \in 192..222 /\ c # 215) THEN c + 32 ELSE c

\* x.lower().replace(" ", "").replace("_","").replace("-","")
RECURSIVE norm(_)
norm(x) ==
    IF x = <<>> THEN <<>>
    ELSE LET c == Lower(Head(x))
         IN  IF c \in {32, 95, 45} THEN norm(Tail(x)) ELSE <<c>> \o norm(Tail(x))

\* a in b, for Python strings
Contains(a, b) ==
    \E i \in 0..(Len(b) - Len(a)) : SubSeq(b, i + 1, i + Len(a)) = a

\* a < b, for Python strings (code point order)
StrLess(a, b) ==
    \/ Len(a) < Len(b) /\ SubSeq(b, 1, Len(a)) = a
    \/ \E i \in 1..(IF Len(a) < Len(b) THEN Len(a) ELSE Len(b)) :
          /\ a[i] < b[i]
          /\ \A j \in 1..(i - 1) : a[j] = b[j]

\* The first key of PRODUCTOS that satisfies Test, or 0 when none does
FirstKey(Test(_)) ==
    IF \E i \in DOMAIN ProductKeys : Test(ProductKeys[i])
    THEN LET i == CHOOSE i \in DOMAIN ProductKeys :
                     /\ Test(ProductKeys[i])
                     /\ \A j \in 1..(i - 1) : ~Test(ProductKeys[j])
         IN  i
    ELSE 0

\* canonical_seq whose fallback returns the name as it came, not stripped
canonical_seq_SinStrip(name) ==
    LET s == Strip(name)
        ns == norm(s)
        Exact(k) == Spell[k] = s
        SameNorm(k) == norm(Spell[k]) = ns
        Inside(k) == Contains(ns, norm(Spell[k])) \/ Contains(norm(Spell[k]), ns)
    IN  IF FirstKey(Exact) # 0 THEN Spell[ProductKeys[FirstKey(Exact)]]
        ELSE IF FirstKey(SameNorm) # 0 THEN Spell[ProductKeys[FirstKey(SameNorm)]]
        ELSE IF FirstKey(Inside) # 0 THEN Spell[ProductKeys[FirstKey(Inside)]]
        ELSE name

\* canonical_product_name on code points; the result is a sequence of code points
canonical_seq(name) ==
    LET s == Strip(name)
        ns == norm(s)
        Exact(k) == Spell[k] = s
        SameNorm(k) == norm(Spell[k]) = ns
        Inside(k) == Contains(ns, norm(Spell[k])) \/ Contains(norm(Spell[k]), ns)
    IN  IF FirstKey(Exact) # 0 THEN Spell[ProductKeys[FirstKey(Exact)]]
        ELSE IF FirstKey(SameNorm) # 0 THEN Spell[ProductKeys[FirstKey(SameNorm)]]
        ELSE IF FirstKey(Inside) # 0 THEN Spell[ProductKeys[FirstKey(Inside)]]
        ELSE s

\* The name spelled by a sequence of code points
Unspell(s) == CHOOSE n \in Names : Spell[n] = s

CanonTable == [n \in Names |-> Unspell(canonical_seq(Spell[n]))]

canonical_product_name(name) == CanonTable[name]

\* PRODUCTOS.get(prod, 0)
PriceOf(prod) == IF prod \in DOMAIN PRODUCTOS THEN PRODUCTOS[prod] ELSE 0

----------------------------------------------------------------------------
(* DataFrame helpers *)

RECURSIVE SumSeq(_)
SumSeq(s) == IF s = <<>> THEN 0 ELSE Head(s) + SumSeq(Tail(s))

MaxOf(S) == CHOOSE m \in S : \A x \in S : x <= m
Min(a, b) == IF a <= b THEN a ELSE b
Max(a, b) == IF a >= b THEN a ELSE b

\* df[df["ID Pedido"] == id] / df[df["ID Pedido"] != id]
RowsOf(df, id) == SelectSeq(df, LAMBDA r : r.ID = id)
\* df[df["ID Pedido"] != id] keeping every row
RowsNotOf_Nada(df, id) == df

RowsNotOf(df, id) == SelectSeq(df, LAMBDA r : r.ID # id)

Ids(df) == {df[i].ID : i \in DOMAIN df}

\* df.index[df["ID Pedido"] == id][0]
IndexOf(df, id) ==
    CHOOSE i \in DOMAIN df : df[i].ID = id /\ \A j \in 1..(i - 1) : df[j].ID # id

\* prod in df_inv["Producto"].values
HasProduct(df, prod) == \E i \in DOMAIN df : df[i].Producto = prod

\* df_inv.index[df_inv["Producto"] == prod][0]
FirstRow(df, prod) ==
    CHOOSE i \in DOMAIN df :
        df[i].Producto = prod /\ \A j \in 1..(i - 1) : df[j].Producto # prod

\* The update of one stock row, or the concat of a new row, as edit_order,
\* delete_order and the manual adjustment do it
AddStock(df, prod, q) ==
    IF HasProduct(df, prod)
    THEN [df EXCEPT ![FirstRow(df, prod)].Stock = @ + q]
    ELSE Append(df, [Producto |-> prod, Stock |-> q])

\* df_inv["Producto"] = df_inv["Producto"].astype(str).apply(canonical_product_name)
CanonRows(df) ==
    [i \in DOMAIN df |-> [df[i] EXCEPT !.Producto = canonical_product_name(@)]]

\* The place of each name in sorted(Names)
NameRank == [n \in Names |-> Cardinality({m \in Names : StrLess(Spell[m], Spell[n])})]

\* df_inv.groupby("Producto", as_index=False).agg({"Stock":"sum"}): one row per
\* name, the names in sorted order
GroupSum(df) ==
    LET keys == {df[i].Producto : i \in DOMAIN df}
        rank(k) == Cardinality({m \in keys : NameRank[m] < NameRank[k]}) + 1
        total(k) == SumSeq([i \in DOMAIN df |->
                               IF df[i].Producto = k THEN df[i].Stock ELSE 0])
    IN  [n \in 1..Cardinality(keys) |->
            LET k == CHOOSE k \in keys : rank(k) = n
            IN  [Producto |-> k, Stock |-> total(k)]]

\* Consolidate without the canonicalisation: the groupby alone
Consolidate_NoCanon(df) == GroupSum(df)

\* The two lines that end every inventory write
Consolidate(df) == GroupSum(CanonRows(df))

\* dfc.empty or cliente_id not in dfc["ID Cliente"].astype(int).tolist(), with
\* the create_order_with_details check left out
ClienteDesconocido_Nunca(dfc, cliente_id) == FALSE

\* dfc.empty or cliente_id not in dfc["ID Cliente"].astype(int).tolist()
ClienteDesconocido(dfc, cliente_id) == dfc = {} \/ cliente_id \notin dfc

\* df_ped.empty or order_id not in df_ped["ID Pedido"].astype(int).tolist()
PedidoDesconocido(df, order_id) == df = <<>> \/ order_id \notin Ids(df)

\* next_id_for(df, "ID Pedido")
\* next_id_for that returns the largest id in use
next_id_for_Max(df) == IF df = <<>> THEN 1 ELSE MaxOf(Ids(df))

next_id_for(df) == IF df = <<>> THEN 1 ELSE MaxOf(Ids(df)) + 1

----------------------------------------------------------------------------
(* create_order_with_details *)

\* subtotal += price * int(q) over items
ItemsSubtotal(items) ==
    SumSeq([i \in DOMAIN items |->
               PriceOf(canonical_product_name(items[i].p)) * items[i].q])

\* The detail line of one item
LineOf_PrecioCrudo(pid, item) ==
    LET prod == canonical_product_name(item.p)
        price == PriceOf(item.p)
    IN  [ID |-> pid, Producto |-> prod, Cantidad |-> item.q,
         Precio |-> price, Subtotal |-> item.q * price]

\* The detail line of one item
LineOf(pid, item) ==
    LET prod == canonical_product_name(item.p)
        price == PriceOf(prod)
    IN  [ID |-> pid, Producto |-> prod, Cantidad |-> item.q,
         Precio |-> price, Subtotal |-> item.q * price]

LinesOf(pid, items) == [i \in DOMAIN items |-> LineOf(pid, items[i])]

\* The inventory step of one item in create_order_with_details
CreateInvStep(df, prod, qty) ==
    IF df = <<>>
    THEN <<[Producto |-> prod, Stock |-> -qty]>>
    ELSE LET c == CanonRows(df)
         IN  IF HasProduct(c, prod)
             THEN [c EXCEPT ![FirstRow(c, prod)].Stock = @ - qty]
             ELSE Append(c, [Producto |-> prod, Stock |-> -qty])

RECURSIVE CreateInvLoop(_, _)
CreateInvLoop(df, items) ==
    IF items = <<>> THEN df
    ELSE CreateInvLoop(
             CreateInvStep(df, canonical_product_name(Head(items).p), Head(items).q),
             Tail(items))

\* NewHeader with Estado taken from the balance, as register_payment does
NewHeader_EstadoPorSaldo(pid, cliente_id, items, domicilio_bool, semana) ==
    LET subtotal == ItemsSubtotal(items)
        total == subtotal + (IF domicilio_bool THEN DOMICILIO_COST ELSE 0)
    IN  [ID |-> pid, IDCliente |-> cliente_id, Subtotal |-> subtotal,
         Domicilio |-> total - subtotal, Total |-> total,
         Estado |-> IF total = 0 THEN "Entregado" ELSE "Pendiente",
         Medio |-> "", Pagado |-> 0, Saldo |-> total, Semana |-> semana]

\* NewHeader with the delivery fee left out of Saldo_pendiente
NewHeader_SaldoSinDomicilio(pid, cliente_id, items, domicilio_bool, semana) ==
    LET subtotal == ItemsSubtotal(items)
        domicilio_monto == IF domicilio_bool THEN DOMICILIO_COST ELSE 0
    IN  [ID |-> pid, IDCliente |-> cliente_id, Subtotal |-> subtotal,
         Domicilio |-> domicilio_monto, Total |-> subtotal + domicilio_monto,
         Estado |-> "Pendiente", Medio |-> "", Pagado |-> 0, Saldo |-> subtotal,
         Semana |-> semana]

\* The header row of a new order
NewHeader(pid, cliente_id, items, domicilio_bool, semana) ==
    LET subtotal == ItemsSubtotal(items)
        domicilio_monto == IF domicilio_bool THEN DOMICILIO_COST ELSE 0
        total == subtotal + domicilio_monto
    IN  [ID |-> pid, IDCliente |-> cliente_id, Subtotal |-> subtotal,
         Domicilio |-> domicilio_monto, Total |-> total, Estado |-> "Pendiente",
         Medio |-> "", Pagado |-> 0, Saldo |-> total, Semana |-> semana]

----------------------------------------------------------------------------
(* edit_order / delete_order *)

\* RevertLoop leaving the loop after the first line
RevertLoop_FirstOnly(df, lines) ==
    IF lines = <<>> THEN df
    ELSE AddStock(df, canonical_product_name(Head(lines).Producto), Head(lines).Cantidad)

\* The loop that gives the old lines' quantities back to the inventory
RECURSIVE RevertLoop(_, _)
RevertLoop(df, lines) ==
    IF lines = <<>> THEN df
    ELSE RevertLoop(
             AddStock(df, canonical_product_name(Head(lines).Producto),
                      Head(lines).Cantidad),
             Tail(lines))

\* EditInvLoop adding the new quantities to the stock instead of taking them
RECURSIVE EditInvLoop_Add(_, _)
EditInvLoop_Add(df, items) ==
    IF items = <<>> THEN df
    ELSE EditInvLoop_Add(
             AddStock(df, canonical_product_name(Head(items).p), Head(items).q),
             Tail(items))

\* The loop over new_items in edit_order (no canonicalisation of the table here)
RECURSIVE EditInvLoop(_, _)
EditInvLoop(df, items) ==
    IF items = <<>> THEN df
    ELSE EditInvLoop(
             AddStock(df, canonical_product_name(Head(items).p), -Head(items).q),
             Tail(items))

\* EditedHeader that starts the payments of the order again
EditedHeader_ResetPagado(h, new_items, new_domic_bool, new_week, new_estado) ==
    LET subtotal_new == ItemsSubtotal(new_items)
        domicilio == IF new_domic_bool = "None" THEN h.Domicilio
                     ELSE IF new_domic_bool = "True" THEN DOMICILIO_COST ELSE 0
    IN  [h EXCEPT !.Subtotal = subtotal_new,
                  !.Domicilio = domicilio,
                  !.Total = subtotal_new + domicilio,
                  !.Pagado = 0,
                  !.Saldo = subtotal_new + domicilio,
                  !.Semana = IF new_week # 0 THEN new_week ELSE @,
                  !.Estado = IF new_estado # "" THEN new_estado ELSE @]

\* EditedHeader that takes Estado from the new balance when new_estado is not given
EditedHeader_EstadoPorSaldo(h, new_items, new_domic_bool, new_week, new_estado) ==
    LET subtotal_new == ItemsSubtotal(new_items)
        domicilio == IF new_domic_bool = "None" THEN h.Domicilio
                     ELSE IF new_domic_bool = "True" THEN DOMICILIO_COST ELSE 0
        saldo_new == subtotal_new + domicilio - h.Pagado
    IN  [h EXCEPT !.Subtotal = subtotal_new,
                  !.Domicilio = domicilio,
                  !.Total = subtotal_new + domicilio,
                  !.Saldo = saldo_new,
                  !.Semana = IF new_week # 0 THEN new_week ELSE @,
                  !.Estado = IF new_estado # "" THEN new_estado
                             ELSE IF saldo_new = 0 THEN "Entregado" ELSE "Pendiente"]

\* EditedHeader without the recomputation of Saldo_pendiente
EditedHeader_StaleSaldo(h, new_items, new_domic_bool, new_week, new_estado) ==
    LET subtotal_new == ItemsSubtotal(new_items)
        domicilio == IF new_domic_bool = "None" THEN h.Domicilio
                     ELSE IF new_domic_bool = "True" THEN DOMICILIO_COST ELSE 0
    IN  [h EXCEPT !.Subtotal = subtotal_new,
                  !.Domicilio = domicilio,
                  !.Total = subtotal_new + domicilio,
                  !.Semana = IF new_week # 0 THEN new_week ELSE @,
                  !.Estado = IF new_estado # "" THEN new_estado ELSE @]

\* The header after edit_order.  new_domic_bool is "None", "True" or "False";
\* new_week = 0 and new_estado = "" are the values Python takes as false.
EditedHeader(h, new_items, new_domic_bool, new_week, new_estado) ==
    LET subtotal_new == ItemsSubtotal(new_items)
        domicilio == IF new_domic_bool = "None" THEN h.Domicilio
                     ELSE IF new_domic_bool = "True" THEN DOMICILIO_COST ELSE 0
        total_new == subtotal_new + domicilio
        monto_pagado == h.Pagado
        saldo_new == total_new - monto_pagado
    IN  [h EXCEPT !.Subtotal = subtotal_new,
                  !.Domicilio = domicilio,
                  !.Total = total_new,
                  !.Saldo = saldo_new,
                  !.Semana = IF new_week # 0 THEN new_week ELSE @,
                  !.Estado = IF new_estado # "" THEN new_estado ELSE @]

----------------------------------------------------------------------------
(* register_payment *)

\* Split with the amounts paid before taken as 0: the cumulative amounts
\* instead of this payment's
Split_Cumulative(h, monto) ==
    LET nuevo_total == h.Pagado + monto
        prod_total_acum == Min(nuevo_total, h.Subtotal)
        dom_total_acum == Min(Max(0, nuevo_total - h.Subtotal), h.Domicilio)
    IN  [prod_now |-> Max(0, prod_total_acum),
         domicilio_now |-> Max(0, dom_total_acum),
         saldo_total |-> (h.Subtotal - prod_total_acum) + (h.Domicilio - dom_total_acum),
         monto_total_reg |-> prod_total_acum + dom_total_acum]

\* Split without the cap of the delivery bucket at Monto_domicilio
Split_UncappedDelivery(h, monto) ==
    LET nuevo_total == h.Pagado + monto
        prod_total_acum == Min(nuevo_total, h.Subtotal)
        dom_total_acum == Max(0, nuevo_total - h.Subtotal)
        prod_pagado_antes == Min(h.Pagado, h.Subtotal)
        dom_pagado_antes == Max(0, h.Pagado - h.Subtotal)
    IN  [prod_now |-> Max(0, prod_total_acum - prod_pagado_antes),
         domicilio_now |-> Max(0, dom_total_acum - dom_pagado_antes),
         saldo_total |-> (h.Subtotal - prod_total_acum) + (h.Domicilio - dom_total_acum),
         monto_total_reg |-> prod_total_acum + dom_total_acum]

\* Split filling the delivery bucket before the product bucket
Split_DeliveryFirst(h, monto) ==
    LET nuevo_total == h.Pagado + monto
        dom_total_acum == Min(nuevo_total, h.Domicilio)
        prod_total_acum == Min(Max(0, nuevo_total - h.Domicilio), h.Subtotal)
        dom_pagado_antes == Min(h.Pagado, h.Domicilio)
        prod_pagado_antes == Max(0, h.Pagado - h.Domicilio)
    IN  [prod_now |-> Max(0, prod_total_acum - prod_pagado_antes),
         domicilio_now |-> Max(0, dom_total_acum - dom_pagado_antes),
         saldo_total |-> (h.Subtotal - prod_total_acum) + (h.Domicilio - dom_total_acum),
         monto_total_reg |-> prod_total_acum + dom_total_acum]

\* The split of a payment: what register_payment computes from the header
Split(h, monto) ==
    LET subtotal_products == h.Subtotal
        domicilio_monto == h.Domicilio
        monto_anterior == h.Pagado
        nuevo_total == monto_anterior + monto
        prod_total_acum == Min(nuevo_total, subtotal_products)
        dom_total_acum == Min(Max(0, nuevo_total - subtotal_products), domicilio_monto)
        prod_pagado_antes == Min(monto_anterior, subtotal_products)
        dom_pagado_antes == Max(0, monto_anterior - subtotal_products)
    IN  [prod_now |-> Max(0, prod_total_acum - prod_pagado_antes),
         domicilio_now |-> Max(0, dom_total_acum - dom_pagado_antes),
         saldo_total |-> (subtotal_products - prod_total_acum)
                             + (domicilio_monto - dom_total_acum),
         monto_total_reg |-> prod_total_acum + dom_total_acum]

\* EstadoDe leaving every paid order pending
EstadoDe_Never(saldo_total) == "Pendiente"

\* EstadoDe marking every paid order as delivered
EstadoDe_Always(saldo_total) == "Entregado"

\* "Entregado" if saldo_total == 0 else "Pendiente"
EstadoDe(saldo_total) == IF saldo_total = 0 THEN "Entregado" ELSE "Pendiente"

\* PaidHeader counting the product bucket alone as paid
PaidHeader_SinDomicilio(h, medio_pago, monto) ==
    LET s == Split(h, monto)
    IN  [h EXCEPT !.Pagado = Min(h.Pagado + monto, h.Subtotal),
                  !.Saldo = s.saldo_total,
                  !.Medio = medio_pago,
                  !.Estado = EstadoDe(s.saldo_total)]

\* PaidHeader storing everything received, without the caps of Split
PaidHeader_Unclamped(h, medio_pago, monto) ==
    [h EXCEPT !.Pagado = h.Pagado + monto,
              !.Saldo = h.Total - (h.Pagado + monto),
              !.Medio = medio_pago,
              !.Estado = EstadoDe(h.Total - (h.Pagado + monto))]

\* The header after register_payment
PaidHeader(h, medio_pago, monto) ==
    LET s == Split(h, monto)
    IN  [h EXCEPT !.Pagado = s.monto_total_reg,
                  !.Saldo = s.saldo_total,
                  !.Medio = medio_pago,
                  !.Estado = EstadoDe(s.saldo_total)]

\* FlowRow with the cumulative amounts of the two buckets
FlowRow_Acumulado(h, medio_pago, monto) ==
    LET s == Split_Cumulative(h, monto)
    IN  [ID |-> h.ID, Medio |-> medio_pago, Prod |-> s.prod_now,
         Dom |-> s.domicilio_now, Saldo |-> s.saldo_total]

\* The FlujoCaja row register_payment appends
FlowRow(h, medio_pago, monto) ==
    LET s == Split(h, monto)
    IN  [ID |-> h.ID, Medio |-> medio_pago, Prod |-> s.prod_now,
         Dom |-> s.domicilio_now, Saldo |-> s.saldo_total]

----------------------------------------------------------------------------
(* Inputs of the model *)

\* Raw product names a caller passes: a catalog key, a spelling of it that
\* only canonicalisation matches, and a name the catalog does not know
RawNames == {"Arandanos_125g", "arandanos 125g", "Pulpa"}

\* The canonical products those names stand for
Products == {canonical_product_name(n) : n \in RawNames}

\* items: Dict[str,int] as the sequence of its (key, value) pairs, keys distinct.
\* A quantity of 0 (the edit form allows it) and two raw names of one product
\* are among the inputs.
Item(n, c) == [p |-> n, q |-> c]

ItemSeqs ==
    { <<Item("arandanos 125g", 2)>>,
      <<Item("Arandanos_125g", 0)>>,
      <<Item("Arandanos_125g", 1), Item("arandanos 125g", 1)>>,
      <<Item("Arandanos_125g", 1), Item("Pulpa", 2)>> }

\* The items of SpecPagos: subtotals 5000, 10000 and 0
ItemSeqsPagos ==
    { <<Item("Arandanos_125g", 1)>>,
      <<Item("Arandanos_125g", 1), Item("arandanos 125g", 1)>>,
      <<Item("Pulpa", 1)>> }

\* Amounts of a payment (the form's number_input has min_value=0)
Montos == {2000, 6000}

\* (new_domic_bool, new_estado) of an edit: what the form passes, and the defaults
EditOptions ==
    { <<"None", "">>, <<"True", "Pendiente">>, <<"True", "Entregado">>,
      <<"False", "Pendiente">>, <<"False", "Entregado">> }

Medios == {"Efectivo"}
Semanas == {1}

\* Inventario as the program may find it when it starts: empty, or rows left
\* by an earlier version, two of which name the same canonical product
InitInventarios ==
    { <<>>,
      << [Producto |-> "arandanos 125g", Stock |-> 1],
         [Producto |-> "Arandanos_125g", Stock |-> 0] >> }

----------------------------------------------------------------------------
(* History helpers *)

\* The stock of canonical product p: the sum over the rows that name it
RECURSIVE StockOf(_, _)
StockOf(df, p) ==
    IF df = <<>> THEN 0
    ELSE (IF canonical_product_name(Head(df).Producto) = p THEN Head(df).Stock ELSE 0)
         + StockOf(Tail(df), p)

\* The quantity of p in the lines of the table
RECURSIVE QtyOf(_, _)
QtyOf(det, p) ==
    IF det = <<>> THEN 0
    ELSE (IF canonical_product_name(Head(det).Producto) = p THEN Head(det).Cantidad ELSE 0)
         + QtyOf(Tail(det), p)

ItemProducts(items) == {canonical_product_name(items[i].p) : i \in DOMAIN items}
LineProducts(lines) == {canonical_product_name(lines[i].Producto) : i \in DOMAIN lines}

\* What register_payment returns when it has nothing to return
NoRet == [prod_paid |-> 0, domicilio_paid |-> 0, saldo_total |-> 0]

\* The record of a call that succeeded, and of one that raised ValueError
Called(op, id) ==
    [op |-> op, id |-> id, raised |-> FALSE, monto |-> 0, ret |-> NoRet, limpio |-> FALSE]
\* Raised with the exception swallowed: the call returns as if it had succeeded
Raised_Silent(op, id) == Called(op, id)

Raised(op, id) == [Called(op, id) EXCEPT !.raised = TRUE]

\* A snapshot that no longer counts
Void == [clean |-> FALSE, stock |-> <<>>]

\* The snapshots after an operation on the products T
Touch(sn, T) ==
    [id \in DOMAIN sn |->
        IF sn[id].clean /\ DOMAIN sn[id].stock \cap T # {} THEN Void ELSE sn[id]]

\* f without the key k
Drop(f, k) == [x \in DOMAIN f \ {k} |-> f[x]]

----------------------------------------------------------------------------
(* The state machine *)

\* The tables as ensure_csv_with_headers creates them, with one customer
InitTablas ==
    /\ clientes = {1}
    /\ pedidos = <<>>
    /\ detalle = <<>>
    /\ inv \in InitInventarios
    /\ flujo = <<>>
    /\ gastos = <<>>
    /\ last = Called("none", 0)
    /\ usados = {}
    /\ inicial = [p \in Products |-> StockOf(inv, p)]
    /\ neto = [p \in Products |-> 0]
    /\ acum = <<>>
    /\ snap = <<>>

\* Google Sheets disabled (GS_CLIENT is None), no call in progress
SinHoja == [on |-> FALSE]
SinSesiones == <<>>
SinLlamada == [pc |-> "idle"]
SinFacturas == [pc |-> "idle"]
SinNombre == <<>>

Init ==
    /\ InitTablas
    /\ hoja = SinHoja
    /\ ses = SinSesiones
    /\ rt = SinLlamada
    /\ fac = SinFacturas
    /\ nom = SinNombre

\* create_order_with_details(cliente_id, items, domicilio_bool, fecha_entrega);
\* semana is the ISO week of fecha_entrega (or of now)
CreateOrder(cliente_id, items, domicilio_bool, semana) ==
    IF ClienteDesconocido(clientes, cliente_id)
    THEN /\ last' = Raised("create", 0)
         /\ UNCHANGED <<clientes, pedidos, detalle, inv, flujo, usados, inicial, neto, acum, snap>>
         /\ UNCHANGED <<gastos, fuera>>
    ELSE LET pid == next_id_for(pedidos)
             T == ItemProducts(items)
         IN  /\ pedidos' = Append(pedidos,
                    NewHeader(pid, cliente_id, items, domicilio_bool, semana))
             /\ detalle' = detalle \o LinesOf(pid, items)
             /\ inv' = Consolidate(CreateInvLoop(inv, items))
             /\ last' = Called("create", pid)
             /\ usados' = usados \cup {pid}
             /\ acum' = (pid :> [prod |-> 0, dom |-> 0]) @@ acum
             /\ snap' = (pid :> [clean |-> TRUE,
                                 stock |-> [p \in T |-> StockOf(inv, p)]])
                        @@ Touch(snap, T)
             /\ UNCHANGED <<clientes, flujo, inicial, neto>>
             /\ UNCHANGED <<gastos, fuera>>

\* edit_order(order_id, new_items, new_domic_bool, new_week, new_estado)
EditOrder(order_id, new_items, new_domic_bool, new_week, new_estado) ==
    IF PedidoDesconocido(pedidos, order_id)
    THEN /\ last' = Raised("edit", order_id)
         /\ UNCHANGED <<clientes, pedidos, detalle, inv, flujo, usados, inicial, neto, acum, snap>>
         /\ UNCHANGED <<gastos, fuera>>
    ELSE LET old_lines == RowsOf(detalle, order_id)
             idx_h == IndexOf(pedidos, order_id)
             T == LineProducts(old_lines) \cup ItemProducts(new_items)
         IN  /\ pedidos' = [pedidos EXCEPT ![idx_h] =
                    EditedHeader(@, new_items, new_domic_bool, new_week, new_estado)]
             /\ detalle' = RowsNotOf(detalle, order_id) \o LinesOf(order_id, new_items)
             /\ inv' = Consolidate(EditInvLoop(RevertLoop(inv, old_lines), new_items))
             /\ last' = Called("edit", order_id)
             /\ acum' = [acum EXCEPT ![order_id] = [prod |-> 0, dom |-> 0]]
             /\ snap' = [Touch(snap, T) EXCEPT ![order_id] = Void]
             /\ UNCHANGED <<clientes, flujo, usados, inicial, neto>>
             /\ UNCHANGED <<gastos, fuera>>

\* delete_order(order_id)
DeleteOrder(order_id) ==
    IF PedidoDesconocido(pedidos, order_id)
    THEN /\ last' = Raised("delete", order_id)
         /\ UNCHANGED <<clientes, pedidos, detalle, inv, flujo, usados, inicial, neto, acum, snap>>
         /\ UNCHANGED <<gastos, fuera>>
    ELSE LET lines == RowsOf(detalle, order_id)
         IN  /\ detalle' = RowsNotOf(detalle, order_id)
             /\ pedidos' = RowsNotOf(pedidos, order_id)
             /\ inv' = Consolidate(RevertLoop(inv, lines))
             /\ last' = [Called("delete", order_id) EXCEPT !.limpio = snap[order_id].clean]
             /\ acum' = Drop(acum, order_id)
             /\ snap' = Drop(Touch(snap, LineProducts(lines)), order_id)
             /\ UNCHANGED <<clientes, flujo, usados, inicial, neto>>
             /\ UNCHANGED <<gastos, fuera>>

\* What register_payment returns
PaymentResult(h, monto) ==
    LET s == Split(h, monto)
    IN  [prod_paid |-> s.prod_now, domicilio_paid |-> s.domicilio_now,
         saldo_total |-> s.saldo_total]

\* register_payment(order_id, medio_pago, monto)
RegisterPayment(order_id, medio_pago, monto) ==
    IF PedidoDesconocido(pedidos, order_id)
    THEN /\ last' = [Raised("pay", order_id) EXCEPT !.monto = monto]
         /\ UNCHANGED <<clientes, pedidos, detalle, inv, flujo, usados, inicial, neto, acum, snap>>
         /\ UNCHANGED <<gastos, fuera>>
    ELSE LET idx == IndexOf(pedidos, order_id)
             h == pedidos[idx]
             s == Split(h, monto)
         IN  /\ pedidos' = [pedidos EXCEPT ![idx] = PaidHeader(h, medio_pago, monto)]
             /\ flujo' = Append(flujo, FlowRow(h, medio_pago, monto))
             /\ last' = [Called("pay", order_id) EXCEPT
                            !.monto = monto, !.ret = PaymentResult(h, monto)]
             /\ acum' = [acum EXCEPT ![order_id] =
                            [prod |-> @.prod + s.prod_now, dom |-> @.dom + s.domicilio_now]]
             /\ UNCHANGED <<clientes, detalle, inv, usados, inicial, neto, snap>>
             /\ UNCHANGED <<gastos, fuera>>

\* prod_list of the Inventario page: the names in the table, or the catalog's
\* keys when the table is empty
ProdList(df) ==
    IF df # <<>> THEN {df[i].Producto : i \in DOMAIN df}
    ELSE {ProductKeys[i] : i \in DOMAIN ProductKeys}

\* The table the "Aplicar ajuste" button saves
Adjusted(df, prod_sel, delta) == Consolidate(AddStock(df, prod_sel, delta))

\* Inventario page, "Aplicar ajuste" with prod_sel chosen in prod_list
AdjustInventory(prod_sel, delta) ==
    LET p == canonical_product_name(prod_sel)
    IN  /\ prod_sel \in ProdList(inv)
        /\ inv' = Adjusted(inv, prod_sel, delta)
        /\ last' = Called("adjust", 0)
        /\ neto' = [neto EXCEPT ![p] = @ + delta]
        /\ snap' = Touch(snap, {p})
        /\ UNCHANGED <<clientes, pedidos, detalle, flujo, usados, inicial, acum>>
        /\ UNCHANGED <<gastos, fuera>>

----------------------------------------------------------------------------
(* Spec: orders and inventory (create, edit, delete, manual adjustment) *)

Abs(x) == IF x < 0 THEN -x ELSE x

\* The size of the manual adjustments n, summed over the products in S
RECURSIVE SumAbs(_, _)
SumAbs(n, S) ==
    IF S = {} THEN 0
    ELSE LET p == CHOOSE p \in S : TRUE
         IN  Abs(n[p]) + SumAbs(n, S \ {p})

TotalAjuste(n) == SumAbs(n, DOMAIN n)

Next ==
    \/ \E c \in clientes, items \in ItemSeqs, w \in Semanas :
          /\ next_id_for(pedidos) <= MaxId
          /\ CreateOrder(c, items, FALSE, w)
    \/ \E id \in Ids(pedidos), items \in ItemSeqs : EditOrder(id, items, "None", 0, "")
    \/ \E id \in Ids(pedidos) : DeleteOrder(id)
    \/ \E prod_sel \in RawNames, delta \in {-1, 1} :
          /\ TotalAjuste([neto EXCEPT ![canonical_product_name(prod_sel)] = @ + delta])
                <= MaxAjuste
          /\ AdjustInventory(prod_sel, delta)

Spec == Init /\ [][Next]_vars

----------------------------------------------------------------------------
(* SpecPagos: one order under edits and payments (create, edit,             *)
(* register_payment)                                                        *)

NextPagos ==
    \/ \E c \in clientes, items \in ItemSeqsPagos, d \in BOOLEAN, w \in Semanas :
          /\ pedidos = <<>>
          /\ CreateOrder(c, items, d, w)
    \/ \E id \in Ids(pedidos), items \in ItemSeqsPagos, de \in EditOptions :
          EditOrder(id, items, de[1], 0, de[2])
    \/ \E id \in Ids(pedidos), m \in Medios, monto \in Montos :
          /\ Len(flujo) < MaxPagos
          /\ RegisterPayment(id, m, monto)

SpecPagos == Init /\ [][NextPagos]_vars

----------------------------------------------------------------------------
(* SpecBordes: one order at a time under all four order operations, with   *)
(* the inputs at the edges:                                                 *)
(* unknown customers and order ids, an empty item map, and every optional  *)
(* argument of edit_order given and not given                              *)

\* Customer ids: the existing one and one that no row has
ClienteIds == {1, 2}

ItemSeqsBordes ==
    { <<Item("Arandanos_125g", 1)>>,
      <<Item("Arandanos_125g", 2)>> }

\* items of create_order_with_details: also one with a quantity of 0
CreateItemsBordes == ItemSeqsBordes \cup {<<Item("Arandanos_125g", 0)>>}

\* new_items of edit_order: the form's lines, or an empty dict
EditItemsBordes == ItemSeqsBordes \cup {<<>>}

\* (new_domic_bool, new_week, new_estado) of edit_order; "None", 0 and "" are
\* the arguments left at their default None
EditArgsBordes ==
    { <<"None", 0, "">>, <<"None", 2, "">>,
      <<"True", 2, "Entregado">>, <<"False", 0, "Pendiente">> }

\* Order ids a caller may pass: 1 is the id of the order while it exists,
\* 2 is the id of no order
PedidoIds == {1, 2}

\* Amount of a payment
MontosBordes == {6000}

\* The tables start empty
InitBordes == Init /\ inv = <<>>

\* The calls that raise do so before they read their other arguments: one
\* choice of these is enough
NextBordes ==
    \/ \E c \in clientes, items \in CreateItemsBordes, w \in Semanas :
          /\ pedidos = <<>>
          /\ CreateOrder(c, items, FALSE, w)
    \/ \E c \in ClienteIds \ clientes, w \in Semanas :
          CreateOrder(c, <<Item("Arandanos_125g", 1)>>, FALSE, w)
    \/ \E id \in Ids(pedidos), items \in EditItemsBordes, a \in EditArgsBordes :
          EditOrder(id, items, a[1], a[2], a[3])
    \/ \E id \in PedidoIds \ Ids(pedidos) : EditOrder(id, <<>>, "None", 0, "")
    \/ \E id \in PedidoIds : DeleteOrder(id)
    \/ \E id \in PedidoIds, m \in Medios, monto \in MontosBordes :
          /\ Len(flujo) < MaxPagos
          /\ RegisterPayment(id, m, monto)

SpecBordes == InitBordes /\ [][NextBordes]_vars

----------------------------------------------------------------------------
(* SpecCrear: several orders, created with and without delivery and deleted *)

NextCrear ==
    \/ \E c \in clientes, items \in ItemSeqs, d \in BOOLEAN, w \in Semanas :
          /\ next_id_for(pedidos) <= MaxId
          /\ CreateOrder(c, items, d, w)
    \/ \E id \in Ids(pedidos) : DeleteOrder(id)

SpecCrear == Init /\ [][NextCrear]_vars

----------------------------------------------------------------------------
(* FlujoCaja and Gastos: totals_by_payment_method, flow_summaries,          *)
(* add_expense, move_funds                                                  *)

MaxFlujo == 3        \* rows of FlujoCaja in SpecCaja
MaxGastos == 1       \* rows of Gastos in SpecCaja

\* df_f["Ingreso_productos_recibido"].sum()
RECURSIVE SumProd(_)
SumProd(df) == IF df = <<>> THEN 0 ELSE Head(df).Prod + SumProd(Tail(df))

\* df_f["Ingreso_domicilio_recibido"].sum()
RECURSIVE SumDom(_)
SumDom(df) == IF df = <<>> THEN 0 ELSE Head(df).Dom + SumDom(Tail(df))

\* df_g["Monto"].sum()
RECURSIVE SumMonto(_)
SumMonto(df) == IF df = <<>> THEN 0 ELSE Head(df).Monto + SumMonto(Tail(df))

\* totals_by_payment_method summing the product column alone
totals_by_payment_method_SoloProd(df_f) ==
    [m \in {df_f[i].Medio : i \in DOMAIN df_f} |->
        SumProd(SelectSeq(df_f, LAMBDA r : r.Medio = m))]

\* totals_by_payment_method(): the dict of the totals per Medio_pago, empty
\* for an empty table
totals_by_payment_method(df_f) ==
    IF df_f = <<>> THEN [m \in {} |-> 0]
    ELSE [m \in {df_f[i].Medio : i \in DOMAIN df_f} |->
             LET rows == SelectSeq(df_f, LAMBDA r : r.Medio = m)
             IN  SumProd(rows) + SumDom(rows)]

\* flow_summaries(): (total_prod, total_dom, total_gastos, saldo)
flow_summaries(df_f, df_g) ==
    LET total_prod == IF df_f # <<>> THEN SumProd(df_f) ELSE 0
        total_dom == IF df_f # <<>> THEN SumDom(df_f) ELSE 0
        total_gastos == IF df_g # <<>> THEN SumMonto(df_g) ELSE 0
    IN  [total_prod |-> total_prod, total_dom |-> total_dom,
         total_gastos |-> total_gastos,
         saldo |-> total_prod + total_dom - total_gastos]

\* MoveRows booking the amount as received by both methods
MoveRows_DosEntradas(amount, from_method, to_method) ==
    << [ID |-> 0, Medio |-> from_method, Prod |-> amount, Dom |-> 0, Saldo |-> 0],
       [ID |-> 0, Medio |-> to_method, Prod |-> amount, Dom |-> 0, Saldo |-> 0] >>

\* The rows neg and pos of move_funds
MoveRows(amount, from_method, to_method) ==
    << [ID |-> 0, Medio |-> from_method, Prod |-> -amount, Dom |-> 0, Saldo |-> 0],
       [ID |-> 0, Medio |-> to_method, Prod |-> amount, Dom |-> 0, Saldo |-> 0] >>

\* move_funds(amount, from_method, to_method)
MoveFunds(amount, from_method, to_method) ==
    /\ flujo' = flujo \o MoveRows(amount, from_method, to_method)
    /\ last' = [Called("move", 0) EXCEPT !.monto = amount]
    /\ UNCHANGED <<clientes, pedidos, detalle, inv, usados, inicial, neto, acum, snap>>
    /\ UNCHANGED <<gastos, fuera>>

\* add_expense(concepto, monto)
AddExpense(concepto, monto) ==
    /\ gastos' = Append(gastos, [Concepto |-> concepto, Monto |-> monto])
    /\ last' = [Called("expense", 0) EXCEPT !.monto = monto]
    /\ UNCHANGED <<clientes, pedidos, detalle, inv, flujo, usados, inicial, neto, acum, snap>>
    /\ UNCHANGED fuera

----------------------------------------------------------------------------
(* SpecCaja: one order with delivery at a time and its payments, next to   *)
(* transfers between payment methods and expenses                           *)

\* Two of the payment methods the forms offer
MediosCaja == {"Efectivo", "Nequi"}

MontosCaja == {6000}
Traslados == {1000}
MontosGasto == {500}
Conceptos == {"Empaques"}

ItemSeqsCaja == { <<Item("Arandanos_125g", 1)>> }
EditItemsCaja == { <<Item("Arandanos_125g", 2)>> }

InitCaja == Init /\ inv = <<>>

NextCaja ==
    \/ \E c \in clientes, items \in ItemSeqsCaja, w \in Semanas :
          /\ pedidos = <<>>
          /\ CreateOrder(c, items, TRUE, w)
    \/ \E id \in Ids(pedidos), items \in EditItemsCaja :
          EditOrder(id, items, "None", 0, "")
    \/ \E id \in Ids(pedidos) : DeleteOrder(id)
    \/ \E id \in PedidoIds, m \in MediosCaja, monto \in MontosCaja :
          /\ Len(flujo) < MaxFlujo
          /\ RegisterPayment(id, m, monto)
    \/ \E amount \in Traslados, from_method \in MediosCaja, to_method \in MediosCaja :
          /\ Len(flujo) + 2 <= MaxFlujo
          /\ MoveFunds(amount, from_method, to_method)
    \/ \E concepto \in Conceptos, monto \in MontosGasto :
          /\ Len(gastos) < MaxGastos
          /\ AddExpense(concepto, monto)

SpecCaja == InitCaja /\ [][NextCaja]_vars

----------------------------------------------------------------------------
(* SpecNombres: canonical_product_name applied to a raw name, and again to  *)
(* its result                                                               *)

\* The catalog keys as code points
KeySeqs == {Spell[ProductKeys[i]] : i \in DOMAIN ProductKeys}

\* x.lower()
LowerSeq(x) == [i \in DOMAIN x |-> Lower(x[i])]

\* x.replace("_", "-")
Hyphened(x) == [i \in DOMAIN x |-> IF x[i] = 95 THEN 45 ELSE x[i]]

\* Raw names: every catalog key as it is, in lower case, with "-" for "_" and
\* without separators; parts of keys ("125g", "arandanos", "Mermelada",
\* "azucar"); names the catalog does not have ("Pulpa", "x-1"); the empty name
Cores ==
    KeySeqs
    \cup {LowerSeq(k) : k \in KeySeqs}
    \cup {Hyphened(k) : k \in KeySeqs}
    \cup {norm(k) : k \in KeySeqs}
    \cup { <<>>, <<49, 50, 53, 103>>, <<97, 114, 97, 110, 100, 97, 110, 111, 115>>,
           <<77, 101, 114, 109, 101, 108, 97, 100, 97>>,
           <<97, 122, 117, 99, 97, 114>>, Spell["Pulpa"], <<120, 45, 49>> }

\* What surrounds a raw name: nothing, white space, a letter
Pads == { <<>>, <<32>>, <<9, 32>>, <<120>> }

Entradas == {a \o c \o b : a \in Pads, c \in Cores, b \in Pads}

InitNombres ==
    /\ InitTablas
    /\ inv = <<>>
    /\ hoja = SinHoja
    /\ ses = SinSesiones
    /\ rt = SinLlamada
    /\ fac = SinFacturas
    /\ nom \in {[in |-> x, n |-> 0, out1 |-> <<>>, out2 |-> <<>>] : x \in Entradas}

\* canonical_product_name(name)
Canonicalize ==
    /\ nom.n = 0
    /\ nom' = [nom EXCEPT !.n = 1, !.out1 = canonical_seq(nom.in)]
    /\ UNCHANGED <<tablas, hoja, ses, rt, fac>>

\* canonical_product_name of the result of the first call
Recanonicalize ==
    /\ nom.n = 1
    /\ nom' = [nom EXCEPT !.n = 2, !.out2 = canonical_seq(nom.out1)]
    /\ UNCHANGED <<tablas, hoja, ses, rt, fac>>

NextNombres == Canonicalize \/ Recanonicalize

SpecNombres == InitNombres /\ [][NextNombres]_vars

----------------------------------------------------------------------------
(* SpecReintentos: one call of safe_read_sheet_to_df or                     *)
(* safe_write_df_to_sheet, with the errors of the Sheets API chosen freely. *)
(* Every step is a statement of the running call, so the call keeps going:  *)
(* weak fairness of the steps.                                              *)

\* range(5) of the three retry loops
Attempts == 5

\* exponential_backoff(attempt): the delay, in units of half a second
exponential_backoff(attempt) == Min(20, 2 ^ attempt)

\* Retryable taking every error as a rate-limit error
Retryable_Todo(e) == TRUE

\* "Quota exceeded" in msg or "rateLimitExceeded" in msg or "[429]" in msg
Retryable(e) == e = "quota"

\* What the call returns when it gives up: False, or the local CSV
GiveUp(fn) == IF fn = "write" THEN "False" ELSE "local"

\* What the call returns when the API call succeeded: True, or the sheet's rows
Success(fn) == IF fn = "write" THEN "True" ELSE "sheet"

InitReintentos ==
    /\ InitTablas
    /\ inv = <<>>
    /\ hoja = SinHoja
    /\ ses = SinSesiones
    /\ fac = SinFacturas
    /\ nom = SinNombre
    /\ rt \in {[pc |-> "ws", fn |-> f, gs |-> g, wsErrs |-> <<>>, wsSleeps |-> <<>>,
                 errs |-> <<>>, sleeps |-> <<>>, result |-> ""] :
                    f \in {"read", "write"}, g \in BOOLEAN}

\* One pass of the loop of safe_get_worksheet: the worksheet is there ("ok"),
\* the access hits the rate limit ("quota"), or it fails otherwise and
\* add_worksheet makes the worksheet ("created") or fails too ("failed")
GetWorksheet(e) ==
    /\ rt.pc = "ws" /\ rt.gs /\ Len(rt.wsErrs) < Attempts
    /\ rt' = IF e \in {"ok", "created"}
             THEN [rt EXCEPT !.pc = "op"]
             ELSE [rt EXCEPT !.wsErrs = Append(@, e),
                             !.wsSleeps = Append(@, exponential_backoff(Len(rt.wsErrs)))]
    /\ UNCHANGED <<tablas, hoja, ses, fac, nom>>

\* safe_get_worksheet returns None: no client, or the loop ran out
NoWorksheet ==
    /\ rt.pc = "ws" /\ (~rt.gs \/ Len(rt.wsErrs) = Attempts)
    /\ rt' = [rt EXCEPT !.pc = "done", !.result = GiveUp(rt.fn)]
    /\ UNCHANGED <<tablas, hoja, ses, fac, nom>>

\* One pass of the loop of safe_read_sheet_to_df / safe_write_df_to_sheet:
\* the API call succeeds or raises e
Attempt(e) ==
    /\ rt.pc = "op" /\ Len(rt.errs) < Attempts
    /\ rt' = IF e = "ok"
             THEN [rt EXCEPT !.pc = "done", !.errs = Append(@, e), !.result = Success(rt.fn)]
             ELSE IF Retryable(e)
             THEN [rt EXCEPT !.errs = Append(@, e),
                             !.sleeps = Append(@, exponential_backoff(Len(rt.errs)))]
             ELSE [rt EXCEPT !.pc = "done", !.errs = Append(@, e), !.result = GiveUp(rt.fn)]
    /\ UNCHANGED <<tablas, hoja, ses, fac, nom>>

\* The loop ran out: "Failed ... after retries"
Exhausted ==
    /\ rt.pc = "op" /\ Len(rt.errs) = Attempts
    /\ rt' = [rt EXCEPT !.pc = "done", !.result = GiveUp(rt.fn)]
    /\ UNCHANGED <<tablas, hoja, ses, fac, nom>>

NextReintentos ==
    \/ \E e \in {"ok", "quota", "created", "failed"} : GetWorksheet(e)
    \/ NoWorksheet
    \/ \E e \in {"ok", "quota", "other"} : Attempt(e)
    \/ Exhausted

SpecReintentos == InitReintentos /\ [][NextReintentos]_vars /\ WF_vars(NextReintentos)

----------------------------------------------------------------------------
(* SpecFacturas: two sessions on the Facturacion page.  A visit to an order *)
(* without an invoice number calls get_next_invoice_number, whose reads and *)
(* writes of cell B2, of the lock file and of the counter file are steps of *)
(* their own, and stores the number in the order.                           *)

MaxFacturas == 3     \* calls of get_next_invoice_number

Sesiones == {1, 2}
Facturables == {1, 2}

Quieta == [pc |-> "idle", o |-> 0, last_num |-> 0, num |-> 0]

InitFacturas ==
    /\ InitTablas
    /\ inv = <<>>
    /\ hoja = SinHoja
    /\ ses = SinSesiones
    /\ rt = SinLlamada
    /\ nom = SinNombre
    /\ fac = [B2 |-> 0, file |-> 0, lock |-> FALSE, n |-> 0, nums |-> <<>>,
              orders |-> [o \in Facturables |-> 0],
              s |-> [x \in Sesiones |-> Quieta]]

\* The page with order o selected: the number the order has is used again,
\* or get_next_invoice_number is called
Visit(x, o) ==
    /\ fac.s[x].pc = "idle"
    /\ IF fac.orders[o] # 0
       THEN fac' = [fac EXCEPT !.s[x] = [Quieta EXCEPT !.o = o, !.num = fac.orders[o]]]
       ELSE /\ fac.n < MaxFacturas
            /\ fac' = [fac EXCEPT !.n = @ + 1,
                                  !.s[x] = [Quieta EXCEPT !.pc = "start", !.o = o]]
    /\ UNCHANGED <<tablas, hoja, ses, rt, nom>>

\* GS_CLIENT and GS_SPREADSHEET are set and safe_get_worksheet("Config") gave
\* the worksheet
UseSheet(x) ==
    /\ fac.s[x].pc = "start"
    /\ fac' = [fac EXCEPT !.s[x].pc = "b2read"]
    /\ UNCHANGED <<tablas, hoja, ses, rt, nom>>

\* No client, no worksheet, or an exception before B2 was written: the local
\* counter file
UseLocal(x) ==
    /\ fac.s[x].pc \in {"start", "b2read", "b2write"}
    /\ fac' = [fac EXCEPT !.s[x].pc = "wait"]
    /\ UNCHANGED <<tablas, hoja, ses, rt, nom>>

\* last_num from ws.acell('B2')
ReadB2(x) ==
    /\ fac.s[x].pc = "b2read"
    /\ fac' = [fac EXCEPT !.s[x].pc = "b2write", !.s[x].last_num = fac.B2]
    /\ UNCHANGED <<tablas, hoja, ses, rt, nom>>

\* ws.update('B2', str(new_num)); return new_num
WriteB2(x) ==
    /\ fac.s[x].pc = "b2write"
    /\ fac' = [fac EXCEPT !.B2 = fac.s[x].last_num + 1,
                          !.s[x].num = fac.s[x].last_num + 1,
                          !.s[x].pc = "assign"]
    /\ UNCHANGED <<tablas, hoja, ses, rt, nom>>

\* while lock_file.exists(): sleep -- the test that finds no lock file
LockFree(x) ==
    /\ fac.s[x].pc = "wait"
    /\ ~fac.lock
    /\ fac' = [fac EXCEPT !.s[x].pc = "touch"]
    /\ UNCHANGED <<tablas, hoja, ses, rt, nom>>

\* lock_file.touch()
TouchLock(x) ==
    /\ fac.s[x].pc = "touch"
    /\ fac' = [fac EXCEPT !.lock = TRUE, !.s[x].pc = "read"]
    /\ UNCHANGED <<tablas, hoja, ses, rt, nom>>

\* last_num from the counter file, 0 when there is none
ReadFile(x) ==
    /\ fac.s[x].pc = "read"
    /\ fac' = [fac EXCEPT !.s[x].pc = "write", !.s[x].last_num = fac.file]
    /\ UNCHANGED <<tablas, hoja, ses, rt, nom>>

\* The counter file written with new_num
WriteFile(x) ==
    /\ fac.s[x].pc = "write"
    /\ fac' = [fac EXCEPT !.file = fac.s[x].last_num + 1,
                          !.s[x].num = fac.s[x].last_num + 1,
                          !.s[x].pc = "unlink"]
    /\ UNCHANGED <<tablas, hoja, ses, rt, nom>>

\* finally: the lock file removed if it exists
Unlink(x) ==
    /\ fac.s[x].pc = "unlink"
    /\ fac' = [fac EXCEPT !.lock = FALSE, !.s[x].pc = "assign"]
    /\ UNCHANGED <<tablas, hoja, ses, rt, nom>>

\* The number returned is stored as the order's "Numero Factura"
Assign(x) ==
    /\ fac.s[x].pc = "assign"
    /\ fac' = [fac EXCEPT !.nums = Append(@, fac.s[x].num),
                          !.orders[fac.s[x].o] = fac.s[x].num,
                          !.s[x].pc = "idle"]
    /\ UNCHANGED <<tablas, hoja, ses, rt, nom>>

NextFacturas ==
    \E x \in Sesiones :
        \/ \E o \in Facturables : Visit(x, o)
        \/ UseSheet(x)
        \/ UseLocal(x)
        \/ ReadB2(x)
        \/ WriteB2(x)
        \/ LockFree(x)
        \/ TouchLock(x)
        \/ ReadFile(x)
        \/ WriteFile(x)
        \/ Unlink(x)
        \/ Assign(x)

SpecFacturas == InitFacturas /\ [][NextFacturas]_vars

----------------------------------------------------------------------------
(* SpecHoja: create_order_with_details and register_payment with Google     *)
(* Sheets enabled.  The variables pedidos, detalle, inv and flujo are the   *)
(* local CSV files, hoja holds the worksheets; every read of a worksheet    *)
(* (safe_read_sheet_to_df) and every write (safe_write_df_to_sheet) either  *)
(* succeeds or gives up.  flush_cache() ends every mutation, so the next    *)
(* load_df reads again.                                                     *)

\* load_df(sheet_title): the worksheet's rows when the read succeeds and has
\* rows, the local CSV otherwise
load_df(local, remote, read_ok) ==
    IF read_ok /\ remote # <<>> THEN remote ELSE local

\* The worksheet after safe_write_df_to_sheet(df, ...)
Written(remote, df, write_ok) == IF write_ok THEN df ELSE remote

MaxMutaciones == 3   \* mutations made with Sheets enabled

TablasCrear == {"Pedidos", "Pedidos_detalle", "Inventario"}
TablasPago == {"Pedidos", "FlujoCaja"}

InitHoja ==
    /\ InitTablas
    /\ inv = <<>>
    /\ hoja = [on |-> TRUE, n |-> 0, Pedidos |-> <<>>, Pedidos_detalle |-> <<>>,
               Inventario |-> <<>>, FlujoCaja |-> <<>>]
    /\ ses = SinSesiones
    /\ rt = SinLlamada
    /\ fac = SinFacturas
    /\ nom = SinNombre

\* create_order_with_details with Sheets enabled; rd and wr say which reads
\* and which writes of the worksheets succeed
CreateOrderGS(cliente_id, items, domicilio_bool, semana, rd, wr) ==
    IF ClienteDesconocido(clientes, cliente_id)
    THEN /\ last' = Raised("create", 0)
         /\ UNCHANGED <<clientes, pedidos, detalle, inv, flujo, usados, inicial, neto, acum, snap>>
         /\ UNCHANGED <<gastos, fuera>>
    ELSE LET df_ped == load_df(pedidos, hoja.Pedidos, rd["Pedidos"])
             df_det == load_df(detalle, hoja.Pedidos_detalle, rd["Pedidos_detalle"])
             df_inv == load_df(inv, hoja.Inventario, rd["Inventario"])
             pid == next_id_for(df_ped)
             ped2 == Append(df_ped, NewHeader(pid, cliente_id, items, domicilio_bool, semana))
             det2 == df_det \o LinesOf(pid, items)
             inv2 == Consolidate(CreateInvLoop(df_inv, items))
         IN  /\ pid <= MaxId
             /\ hoja.n < MaxMutaciones
             /\ pedidos' = ped2
             /\ detalle' = det2
             /\ inv' = inv2
             /\ hoja' = [hoja EXCEPT
                    !.n = @ + 1,
                    !.Pedidos = Written(@, ped2, wr["Pedidos"]),
                    !.Pedidos_detalle = Written(@, det2, wr["Pedidos_detalle"]),
                    !.Inventario = Written(@, inv2, wr["Inventario"])]
             /\ last' = Called("create", pid)
             /\ usados' = usados \cup {pid}
             /\ UNCHANGED <<clientes, flujo, inicial, neto, acum, snap>>
             /\ UNCHANGED <<gastos, ses, rt, fac, nom>>

\* register_payment with Sheets enabled
RegisterPaymentGS(order_id, medio_pago, monto, rd, wr) ==
    LET df_ped == load_df(pedidos, hoja.Pedidos, rd["Pedidos"])
        df_flu == load_df(flujo, hoja.FlujoCaja, rd["FlujoCaja"])
    IN  IF PedidoDesconocido(df_ped, order_id)
        THEN /\ last' = [Raised("pay", order_id) EXCEPT !.monto = monto]
             /\ UNCHANGED <<clientes, pedidos, detalle, inv, flujo, usados, inicial, neto, acum, snap>>
             /\ UNCHANGED <<gastos, fuera>>
        ELSE LET idx == IndexOf(df_ped, order_id)
                 h == df_ped[idx]
                 ped2 == [df_ped EXCEPT ![idx] = PaidHeader(h, medio_pago, monto)]
                 flu2 == Append(df_flu, FlowRow(h, medio_pago, monto))
             IN  /\ Len(df_flu) < MaxPagos
                 /\ hoja.n < MaxMutaciones
                 /\ pedidos' = ped2
                 /\ flujo' = flu2
                 /\ hoja' = [hoja EXCEPT
                        !.n = @ + 1,
                        !.Pedidos = Written(@, ped2, wr["Pedidos"]),
                        !.FlujoCaja = Written(@, flu2, wr["FlujoCaja"])]
                 /\ last' = [Called("pay", order_id) EXCEPT
                                !.monto = monto, !.ret = PaymentResult(h, monto)]
                 /\ UNCHANGED <<clientes, detalle, inv, usados, inicial, neto, acum, snap>>
                 /\ UNCHANGED <<gastos, ses, rt, fac, nom>>

NextHoja ==
    \/ \E c \in clientes, items \in ItemSeqsCaja, w \in Semanas,
          rd \in [TablasCrear -> BOOLEAN], wr \in [TablasCrear -> BOOLEAN] :
          CreateOrderGS(c, items, FALSE, w, rd, wr)
    \/ \E id \in PedidoIds, m \in Medios, monto \in MontosBordes,
          rd \in [TablasPago -> BOOLEAN], wr \in [TablasPago -> BOOLEAN] :
          RegisterPaymentGS(id, m, monto, rd, wr)

SpecHoja == InitHoja /\ [][NextHoja]_vars

----------------------------------------------------------------------------
(* SpecSesiones: two browser sessions of the one Streamlit process, each    *)
(* running create_order_with_details or register_payment.  A mutation is    *)
(* its load_df calls, then its computation on the frames it loaded, then    *)
(* its save_local_csv calls; nothing in the code keeps another session from *)
(* running between the loads and the saves.                                 *)

Ociosa == [pc |-> "idle"]

\* The sessions that are between their loads and their saves
EnCurso(op) == {y \in Sesiones : ses.s[y].pc = op}

InitSesiones ==
    /\ InitTablas
    /\ inv = <<>>
    /\ hoja = SinHoja
    /\ ses = [s |-> [x \in Sesiones |-> Ociosa], solapado |-> FALSE,
              devueltos |-> <<>>, pagos |-> 0]
    /\ rt = SinLlamada
    /\ fac = SinFacturas
    /\ nom = SinNombre

\* create_order_with_details, its four load_df calls
LoadCreate(x, cliente_id, items, domicilio_bool, semana) ==
    /\ ses.s[x].pc = "idle"
    /\ Len(ses.devueltos) + Cardinality(EnCurso("create")) < MaxId
    /\ ses' = [ses EXCEPT
          !.s[x] = [pc |-> "create", cliente_id |-> cliente_id, items |-> items,
                    domicilio_bool |-> domicilio_bool, semana |-> semana,
                    df_clientes |-> clientes, df_ped |-> pedidos,
                    df_det |-> detalle, df_inv |-> inv],
          !.solapado = @ \/ \E y \in Sesiones \ {x} : ses.s[y].pc # "idle"]
    /\ UNCHANGED <<tablas, hoja, rt, fac, nom>>

\* create_order_with_details from the customer check to the return
SaveCreate(x) ==
    /\ ses.s[x].pc = "create"
    /\ LET f == ses.s[x]
           pid == next_id_for(f.df_ped)
       IN  IF ClienteDesconocido(f.df_clientes, f.cliente_id)
           THEN /\ last' = Raised("create", 0)
                /\ ses' = [ses EXCEPT !.s[x] = Ociosa]
                /\ UNCHANGED <<clientes, pedidos, detalle, inv, flujo, usados, inicial, neto, acum, snap>>
                /\ UNCHANGED <<gastos, hoja, rt, fac, nom>>
           ELSE /\ pedidos' = Append(f.df_ped,
                        NewHeader(pid, f.cliente_id, f.items, f.domicilio_bool, f.semana))
                /\ detalle' = f.df_det \o LinesOf(pid, f.items)
                /\ inv' = Consolidate(CreateInvLoop(f.df_inv, f.items))
                /\ last' = Called("create", pid)
                /\ usados' = usados \cup {pid}
                /\ ses' = [ses EXCEPT !.s[x] = Ociosa, !.devueltos = Append(@, pid)]
                /\ UNCHANGED <<clientes, flujo, inicial, neto, acum, snap>>
                /\ UNCHANGED <<gastos, hoja, rt, fac, nom>>

\* register_payment, its two load_df calls
LoadPay(x, order_id, medio_pago, monto) ==
    /\ ses.s[x].pc = "idle"
    /\ ses.pagos + Cardinality(EnCurso("pay")) < MaxPagos
    /\ ses' = [ses EXCEPT
          !.s[x] = [pc |-> "pay", order_id |-> order_id, medio_pago |-> medio_pago,
                    monto |-> monto, df_ped |-> pedidos, df_flu |-> flujo],
          !.solapado = @ \/ \E y \in Sesiones \ {x} : ses.s[y].pc # "idle"]
    /\ UNCHANGED <<tablas, hoja, rt, fac, nom>>

\* register_payment from the order check to the return
SavePay(x) ==
    /\ ses.s[x].pc = "pay"
    /\ LET f == ses.s[x]
       IN  IF PedidoDesconocido(f.df_ped, f.order_id)
           THEN /\ last' = [Raised("pay", f.order_id) EXCEPT !.monto = f.monto]
                /\ ses' = [ses EXCEPT !.s[x] = Ociosa]
                /\ UNCHANGED <<clientes, pedidos, detalle, inv, flujo, usados, inicial, neto, acum, snap>>
                /\ UNCHANGED <<gastos, hoja, rt, fac, nom>>
           ELSE LET idx == IndexOf(f.df_ped, f.order_id)
                    h == f.df_ped[idx]
                IN  /\ pedidos' = [f.df_ped EXCEPT ![idx] = PaidHeader(h, f.medio_pago, f.monto)]
                    /\ flujo' = Append(f.df_flu, FlowRow(h, f.medio_pago, f.monto))
                    /\ last' = [Called("pay", f.order_id) EXCEPT
                                   !.monto = f.monto, !.ret = PaymentResult(h, f.monto)]
                    /\ ses' = [ses EXCEPT !.s[x] = Ociosa, !.pagos = @ + 1]
                    /\ UNCHANGED <<clientes, detalle, inv, usados, inicial, neto, acum, snap>>
                    /\ UNCHANGED <<gastos, hoja, rt, fac, nom>>

NextSesiones ==
    \E x \in Sesiones :
        \/ \E c \in clientes, items \in ItemSeqsBordes, w \in Semanas :
              LoadCreate(x, c, items, FALSE, w)
        \/ SaveCreate(x)
        \/ \E id \in PedidoIds, m \in Medios, monto \in MontosBordes :
              LoadPay(x, id, m, monto)
        \/ SavePay(x)

SpecSesiones == InitSesiones /\ [][NextSesiones]_vars

----------------------------------------------------------------------------
(* Properties *)

\* The header of order id
OrderOf(df, id) == df[IndexOf(df, id)]

\* C1: every existing order has Total_pedido = Subtotal_productos +
\* Monto_domicilio and Saldo_pendiente = Total_pedido - Monto_pagado, in every
\* state that create, edit and payment calls reach.
C1_Totals ==
    \A i \in DOMAIN pedidos :
        /\ pedidos[i].Total = pedidos[i].Subtotal + pedidos[i].Domicilio
        /\ pedidos[i].Saldo = pedidos[i].Total - pedidos[i].Pagado

\* An order paid in part and then edited to a total below what was paid
C1_Witness ==
    /\ last.op = "edit"
    /\ \E i \in DOMAIN pedidos : pedidos[i].Pagado > 0 /\ pedidos[i].Saldo < 0

\* C2: right after a successful register_payment the order is "Entregado" if
\* its Saldo_pendiente is 0 and "Pendiente" otherwise, whatever it was before.
C2_StatusAfterPayment ==
    (last.op = "pay" /\ ~last.raised) =>
        LET h == OrderOf(pedidos, last.id)
        IN  h.Estado = IF h.Saldo = 0 THEN "Entregado" ELSE "Pendiente"

\* A payment that clears the balance: the order becomes "Entregado"
C2_Witness ==
    /\ last.op = "pay"
    /\ OrderOf(pedidos, last.id).Saldo = 0
    /\ OrderOf(pedidos, last.id).Estado = "Entregado"
    /\ OrderOf(pedidos, last.id).Pagado > 0

\* The amounts up to top, in thousands
MontosSplit(top) == {1000 * k : k \in 0..(top \div 1000)}

\* For an order with nothing paid: a then b, against a + b at once
SplitAdditive(h, m) ==
    \A a \in MontosSplit(h.Total) :
        \A b \in MontosSplit(h.Total - a) :
            LET h1 == PaidHeader(h, m, a)
                h2 == PaidHeader(h1, m, b)
                h12 == PaidHeader(h, m, a + b)
                f1 == FlowRow(h, m, a)
                f2 == FlowRow(h1, m, b)
                f12 == FlowRow(h, m, a + b)
            IN  /\ h2.Pagado = h12.Pagado
                /\ h2.Saldo = h12.Saldo
                /\ h2.Estado = h12.Estado
                /\ f1.Prod + f2.Prod = f12.Prod
                /\ f1.Dom + f2.Dom = f12.Dom

\* C3: for an order with Monto_pagado = 0 and a + b <= Total_pedido, paying a
\* and then b gives the same Monto_pagado, Saldo_pendiente, Estado and the
\* same sums of the FlujoCaja amounts as paying a + b at once; and every
\* payment appends one row, so the two payments leave two rows.
C3_SplitAdditive ==
    [][ /\ \A i \in DOMAIN pedidos' :
              pedidos'[i].Pagado = 0 => \A m \in Medios : SplitAdditive(pedidos'[i], m)
        /\ (last'.op = "pay" /\ ~last'.raised) => Len(flujo') = Len(flujo) + 1
      ]_vars

\* An order of total 8000 paid in two parts, 2000 and then 6000
C3_Witness ==
    /\ last.op = "pay"
    /\ Len(flujo) = 2
    /\ flujo[1].Prod + flujo[1].Dom = 2000
    /\ flujo[2].Prod + flujo[2].Dom = 6000
    /\ OrderOf(pedidos, last.id).Saldo = 0
    /\ OrderOf(pedidos, last.id).Pagado = 8000

C5_ProductFirst ==
    [][ (last'.op = "pay" /\ ~last'.raised) =>
          LET h == OrderOf(pedidos, last'.id)
              monto == last'.monto
              r == last'.ret
          IN  (monto >= 0 /\ 0 <= h.Pagado /\ h.Pagado <= h.Total) =>
                /\ r.prod_paid = Min(monto, h.Subtotal - Min(h.Pagado, h.Subtotal))
                /\ r.domicilio_paid =
                      Min(monto - r.prod_paid,
                          h.Domicilio - Max(0, h.Pagado - h.Subtotal))
                /\ r.prod_paid + r.domicilio_paid = Min(monto, h.Saldo)
                /\ r.saldo_total = h.Saldo - (r.prod_paid + r.domicilio_paid)
                /\ OrderOf(pedidos', last'.id).Saldo = r.saldo_total
      ]_vars

\* A first payment that fills the product bucket and part of the delivery fee
C5_Witness ==
    /\ last.op = "pay"
    /\ Len(flujo) = 1
    /\ last.ret.prod_paid > 0
    /\ last.ret.domicilio_paid > 0
    /\ last.ret.saldo_total > 0

\* C6: after a register_payment with monto >= 0, Monto_pagado <= Total_pedido
\* and Saldo_pendiente >= 0; what the call puts in the two buckets, and in the
\* one FlujoCaja row it appends, is min(monto, balance before) (0 when the
\* balance before was negative): the excess is recorded nowhere.
C6_OverpaymentAbsorbed ==
    [][ (last'.op = "pay" /\ ~last'.raised /\ last'.monto >= 0) =>
          LET h == OrderOf(pedidos, last'.id)
              h2 == OrderOf(pedidos', last'.id)
              row == flujo'[Len(flujo')]
              applied == Min(last'.monto, Max(0, h.Saldo))
          IN  /\ h2.Pagado <= h2.Total
              /\ h2.Saldo >= 0
              /\ h2.Pagado <= Max(h.Pagado, 0) + applied
              /\ flujo' = Append(flujo, row)
              /\ row.ID = last'.id
              /\ row.Prod = last'.ret.prod_paid
              /\ row.Dom = last'.ret.domicilio_paid
              /\ row.Prod >= 0 /\ row.Dom >= 0
              /\ row.Prod + row.Dom = applied
      ]_vars

\* A payment above the balance: part of monto is in no bucket
C6_Witness ==
    /\ last.op = "pay"
    /\ last.monto > last.ret.prod_paid + last.ret.domicilio_paid
    /\ last.ret.prod_paid + last.ret.domicilio_paid > 0
    /\ OrderOf(pedidos, last.id).Saldo = 0
    /\ flujo[Len(flujo)].Prod + flujo[Len(flujo)].Dom < last.monto

\* C7: when delete_order removes an order whose products no other call has
\* touched since create_order_with_details made it, the stock of each of its
\* products is back at its value before the creation.
C7_CreateDeleteRestores ==
    [][ (last'.op = "delete" /\ ~last'.raised /\ last'.limpio) =>
          \A p \in DOMAIN snap[last'.id].stock :
              StockOf(inv', p) = snap[last'.id].stock[p]
      ]_vars

\* An order made on an empty inventory (its rows were created by the order,
\* with negative stock) and deleted: the rows are back at 0
C7_Witness ==
    /\ last.op = "delete"
    /\ last.limpio
    /\ \A p \in Products : inicial[p] = 0 /\ neto[p] = 0
    /\ pedidos = <<>>
    /\ Len(inv) = 2
    /\ \A i \in DOMAIN inv : inv[i].Stock = 0

\* The quantity of p in the lines of order id
QtyOfOrder(det, id, p) == QtyOf(RowsOf(det, id), p)

\* Stock plus the quantities of the existing lines is what the table
\* started with plus the manual adjustments
Conservation ==
    \A p \in Products :
        StockOf(inv, p) + QtyOf(detalle, p) = inicial[p] + neto[p]

\* C8: for every product, stock plus the quantities of all existing lines
\* equals the net manual adjustments (the stock the table started with
\* counts as adjusted before); edit_order changes the stock of p by
\* (old quantity of p) - (new quantity of p).
C8_InventoryConservation ==
    [][ /\ Conservation'
        /\ (last'.op = "edit" /\ ~last'.raised) =>
              \A p \in Products :
                  StockOf(inv', p) - StockOf(inv, p) =
                      QtyOfOrder(detalle, last'.id, p) - QtyOfOrder(detalle', last'.id, p)
      ]_vars

\* An edit, after a manual adjustment, that leaves a product with negative stock
C8_Witness ==
    /\ last.op = "edit"
    /\ \E p \in Products :
          /\ neto[p] # 0
          /\ QtyOf(detalle, p) > 0
          /\ StockOf(inv, p) < 0

\* No two rows of the inventory name the same canonical product
OneRowPerProduct(df) ==
    \A i, j \in DOMAIN df :
        canonical_product_name(df[i].Producto) = canonical_product_name(df[j].Producto)
            => i = j

\* C9: after any call that writes the inventory (create, edit, delete, manual
\* adjustment) the table has at most one row per canonical product, also when
\* it started with several rows of one product.
C9_OneRowPerProduct ==
    (last.op \in {"create", "edit", "delete", "adjust"} /\ ~last.raised) =>
        OneRowPerProduct(inv)

\* The inventory started with two rows of one product; after an edit they are one
C9_Witness ==
    /\ last.op = "edit"
    /\ inicial["Arandanos_125g"] = 1
    /\ \E i \in DOMAIN inv : inv[i].Producto = "Arandanos_125g"
    /\ OneRowPerProduct(inv)

\* C10: create_order_with_details never returns an id it has returned before.
C10_IdNeverReused ==
    [][ (last'.op = "create" /\ ~last'.raised) => last'.id \notin usados ]_vars

\* The step is a call of op on order id that returned
Returned(op, id) == last'.op = op /\ last'.id = id /\ ~last'.raised

\* Estado is what the balance gives
Derived(h) == h.Estado = (IF h.Saldo = 0 THEN "Entregado" ELSE "Pendiente")

\* C11 as stated: in every state every order is "Entregado" if and only if
\* its Saldo_pendiente is 0, and "Pendiente" otherwise.
C11_StatusIffZeroBalance == \A i \in DOMAIN pedidos : Derived(pedidos[i])

\* C11: a new order is "Pendiente" whatever its balance (also 0); a payment
\* leaves Estado as the balance gives it; every step but an edit_order of the
\* order keeps Estado as the balance gives it once it is so.  edit_order
\* writes Estado without regard to the balance.
C11_StatusDerivedByPayment ==
    [][ \A i \in DOMAIN pedidos' :
          LET h2 == pedidos'[i]
              id == h2.ID
          IN  /\ id \notin Ids(pedidos) => h2.Estado = "Pendiente"
              /\ Returned("pay", id) => Derived(h2)
              /\ (id \in Ids(pedidos) /\ ~Returned("edit", id)) =>
                    (Derived(OrderOf(pedidos, id)) => Derived(h2))
      ]_vars

\* After an edit: an order marked "Entregado" that owes money, and one marked
\* "Pendiente" that owes nothing
C11_Witness ==
    /\ last.op = "edit" /\ ~last.raised
    /\ \E i \in DOMAIN pedidos :
          /\ pedidos[i].Estado = "Entregado"
          /\ pedidos[i].Saldo > 0
          /\ pedidos[i].Pagado > 0

\* C12 as stated: no register_payment or edit_order step takes an order from
\* "Entregado" to "Pendiente".
C12_DeliveredStays ==
    [][ \A i \in DOMAIN pedidos' :
          LET id == pedidos'[i].ID
          IN  (id \in Ids(pedidos) /\ OrderOf(pedidos, id).Estado = "Entregado")
                  => pedidos'[i].Estado = "Entregado"
      ]_vars

\* C12: an order goes from "Entregado" to "Pendiente" only by an edit_order of
\* it, or by a register_payment on it that leaves a balance (it owed money
\* while "Entregado": an edit had raised its total); a payment on an
\* "Entregado" order that owes nothing leaves it "Entregado"; an order goes
\* from "Pendiente" to "Entregado" only by a payment that clears the balance
\* or by an edit_order.
C12_StatusTransitions ==
    [][ \A i \in DOMAIN pedidos' :
          LET h2 == pedidos'[i]
              id == h2.ID
              h == OrderOf(pedidos, id)
          IN  id \in Ids(pedidos) =>
                /\ (h.Estado = "Entregado" /\ h2.Estado = "Pendiente") =>
                      \/ Returned("edit", id)
                      \/ Returned("pay", id) /\ h.Saldo > 0 /\ h2.Saldo > 0
                /\ (h.Estado = "Entregado" /\ h.Saldo <= 0 /\ Returned("pay", id)) =>
                      h2.Estado = "Entregado"
                /\ (h.Estado = "Pendiente" /\ h2.Estado = "Entregado") =>
                      \/ Returned("edit", id)
                      \/ Returned("pay", id) /\ h2.Saldo = 0
      ]_vars

\* A first payment cleared the balance, an edit raised the total, and a second
\* payment left the order "Pendiente"
C12_Witness ==
    /\ last.op = "pay" /\ ~last.raised
    /\ Len(flujo) = 2
    /\ flujo[1].ID = last.id /\ flujo[1].Saldo = 0
    /\ flujo[2].ID = last.id /\ flujo[2].Saldo > 0
    /\ last.id \in Ids(pedidos)
    /\ OrderOf(pedidos, last.id).Estado = "Pendiente"

\* The call raised and wrote no table
Rejected ==
    /\ last'.raised
    /\ UNCHANGED <<clientes, pedidos, detalle, inv, flujo>>

\* C13: create_order_with_details with a cliente_id that no customer has
\* raises and leaves customers, orders, lines, inventory and cash flow as they
\* were; the next order id is still the same.
C13_UnknownCustomerRejected ==
    [][ \A c \in ClienteIds \ clientes, items \in CreateItemsBordes, d \in BOOLEAN,
           w \in Semanas :
          (last'.op = "create" /\ CreateOrder(c, items, d, w)) =>
              /\ Rejected
              /\ last'.op = "create"
              /\ next_id_for(pedidos') = next_id_for(pedidos)
              /\ usados' = usados
      ]_vars

\* A create for an unknown customer raised, with an order in the table
C13_Witness ==
    /\ last.op = "create" /\ last.raised
    /\ pedidos # <<>>
    /\ \A i \in DOMAIN pedidos : pedidos[i].IDCliente \in clientes

\* C14: edit_order, delete_order and register_payment with an order id that no
\* order has (also the id of an order deleted before) raise and leave orders,
\* lines, inventory and cash flow as they were.
C14_UnknownOrderRejected ==
    [][ \A id \in PedidoIds :
          (id \notin Ids(pedidos) /\ last'.id = id) =>
            /\ \A items \in EditItemsBordes, a \in EditArgsBordes :
                  EditOrder(id, items, a[1], a[2], a[3]) => Rejected /\ last'.op = "edit"
            /\ DeleteOrder(id) => Rejected /\ last'.op = "delete"
            /\ \A m \in Medios, monto \in MontosBordes :
                  RegisterPayment(id, m, monto) => Rejected /\ last'.op = "pay"
      ]_vars

\* A payment on the id of an order that was paid and then deleted raised
C14_Witness ==
    /\ last.op = "pay" /\ last.raised
    /\ last.id \in usados
    /\ last.id \notin Ids(pedidos)
    /\ \E i \in DOMAIN flujo : flujo[i].ID = last.id

\* C15 as stated: edit_order with an empty new_items raises and leaves the
\* header, the lines and the inventory as they were.
C15_EmptyEditRejected ==
    [][ \A id \in PedidoIds, a \in EditArgsBordes :
          EditOrder(id, <<>>, a[1], a[2], a[3]) =>
              last'.raised /\ UNCHANGED <<pedidos, detalle, inv>>
      ]_vars

\* C16 as stated: every stored line has Cantidad > 0.
C16_PositiveQuantities == \A i \in DOMAIN detalle : detalle[i].Cantidad > 0

\* C17: each order's Subtotal_productos is the sum of Subtotal over its lines,
\* and each line's Subtotal is Cantidad * Precio_unitario with Precio_unitario
\* the catalog price of the line's canonical product (0 when it has none).
C17_SubtotalIsSumOfLines ==
    /\ \A i \in DOMAIN pedidos :
          LET lines == RowsOf(detalle, pedidos[i].ID)
          IN  pedidos[i].Subtotal = SumSeq([k \in DOMAIN lines |-> lines[k].Subtotal])
    /\ \A k \in DOMAIN detalle :
          /\ detalle[k].Subtotal = detalle[k].Cantidad * detalle[k].Precio
          /\ detalle[k].Precio = PriceOf(canonical_product_name(detalle[k].Producto))
          /\ detalle[k].Producto = canonical_product_name(detalle[k].Producto)

\* An edit left an order with two lines of one product, from two raw names
\* of it, next to an order with a product the catalog does not have
C17_Witness ==
    /\ last.op = "edit" /\ ~last.raised
    /\ \E i \in DOMAIN pedidos :
          LET lines == RowsOf(detalle, pedidos[i].ID)
          IN  /\ pedidos[i].ID = last.id
              /\ Len(lines) = 2
              /\ lines[1].Producto = lines[2].Producto
              /\ pedidos[i].Subtotal = 10000
    /\ \E k \in DOMAIN detalle : detalle[k].Precio = 0 /\ detalle[k].Cantidad > 0

\* C18: edit_order leaves Monto_pagado as it was and writes Saldo_pendiente as
\* the new Total_pedido minus it, negative when the total is now below what
\* was paid.
C18_EditKeepsPaid ==
    [][ \A i \in DOMAIN pedidos' :
          LET h2 == pedidos'[i]
          IN  Returned("edit", h2.ID) =>
                /\ h2.ID \in Ids(pedidos)
                /\ h2.Pagado = OrderOf(pedidos, h2.ID).Pagado
                /\ h2.Saldo = h2.Total - OrderOf(pedidos, h2.ID).Pagado
      ]_vars

\* An order with 5000 paid edited to a total of 0
C18_Witness ==
    /\ last.op = "edit" /\ ~last.raised
    /\ \E i \in DOMAIN pedidos :
          /\ pedidos[i].ID = last.id
          /\ pedidos[i].Pagado = 5000
          /\ pedidos[i].Total = 0
          /\ pedidos[i].Saldo = -5000

\* C19: edit_order writes Estado only when new_estado is given, Monto_domicilio
\* only when new_domic_bool is given and Semana_entrega only when new_week is
\* given; what is not given stays as it was, whatever the new balance.
C19_EditFrame ==
    [][ (last'.op = "edit" /\ ~last'.raised) =>
          \A items \in EditItemsBordes, a \in EditArgsBordes :
            (/\ RowsOf(detalle', last'.id) = LinesOf(last'.id, items)
             /\ EditOrder(last'.id, items, a[1], a[2], a[3])) =>
            LET h == OrderOf(pedidos, last'.id)
                h2 == OrderOf(pedidos', last'.id)
            IN  /\ h2.Estado = IF a[3] = "" THEN h.Estado ELSE a[3]
                /\ h2.Domicilio = IF a[1] = "None" THEN h.Domicilio
                                  ELSE IF a[1] = "True" THEN DOMICILIO_COST ELSE 0
                /\ h2.Semana = IF a[2] = 0 THEN h.Semana ELSE a[2]
      ]_vars

\* An edit that passed only new_week: the order keeps "Pendiente" and its
\* delivery fee with a negative balance
C19_Witness ==
    /\ last.op = "edit" /\ ~last.raised
    /\ \E i \in DOMAIN pedidos :
          /\ pedidos[i].ID = last.id
          /\ pedidos[i].Estado = "Pendiente"
          /\ pedidos[i].Saldo < 0
          /\ pedidos[i].Domicilio = DOMICILIO_COST
          /\ pedidos[i].Semana = 2

\* C20: every line belongs to an existing order; delete_order removes the
\* header and all the lines of the order and nothing of the other orders.
C20_CascadeDelete ==
    [][ /\ \A k \in DOMAIN detalle' : detalle'[k].ID \in Ids(pedidos')
        /\ \A id \in Ids(pedidos) :
              Returned("delete", id) =>
                /\ id \notin Ids(pedidos')
                /\ RowsOf(detalle', id) = <<>>
                /\ pedidos' = RowsNotOf(pedidos, id)
                /\ detalle' = RowsNotOf(detalle, id)
      ]_vars

\* A delete of one of two orders: the other and its lines are still there
C20_Witness ==
    /\ last.op = "delete" /\ ~last.raised
    /\ Len(pedidos) = 1
    /\ pedidos[1].ID # last.id
    /\ Len(detalle) = 2
    /\ \A k \in DOMAIN detalle : detalle[k].ID = pedidos[1].ID

\* C21: create_order_with_details returns the id of a new order whose header
\* has Estado "Pendiente", Monto_pagado 0, an empty Medio_pago, Monto_domicilio
\* DOMICILIO_COST with delivery and 0 without, Subtotal_productos the sum of
\* catalog price * quantity over the items, and Saldo_pendiente = Total_pedido
\* = Subtotal_productos + Monto_domicilio; the orders that existed and their
\* lines stay as they were.
C21_CreatedHeader ==
    [][ (last'.op = "create" /\ ~last'.raised) =>
          \A c \in clientes, items \in ItemSeqs, d \in BOOLEAN, w \in Semanas :
            CreateOrder(c, items, d, w) =>
              LET id == last'.id
                  h2 == OrderOf(pedidos', id)
                  fee == IF d THEN DOMICILIO_COST ELSE 0
                  sum == SumSeq([i \in DOMAIN items |->
                             PriceOf(canonical_product_name(items[i].p)) * items[i].q])
              IN  /\ id \notin Ids(pedidos)
                  /\ Cardinality({i \in DOMAIN pedidos' : pedidos'[i].ID = id}) = 1
                  /\ h2.Estado = "Pendiente"
                  /\ h2.Pagado = 0
                  /\ h2.Medio = ""
                  /\ h2.Domicilio = fee
                  /\ h2.Subtotal = sum
                  /\ h2.Total = sum + fee
                  /\ h2.Saldo = h2.Total
                  /\ \A o \in Ids(pedidos) :
                        /\ OrderOf(pedidos', o) = OrderOf(pedidos, o)
                        /\ RowsOf(detalle', o) = RowsOf(detalle, o)
      ]_vars

\* A second order created with delivery from two raw names of one product
C21_Witness ==
    /\ last.op = "create" /\ ~last.raised
    /\ Len(pedidos) = 2
    /\ LET h == OrderOf(pedidos, last.id)
       IN  /\ h.Domicilio = DOMICILIO_COST
           /\ h.Subtotal = 10000
           /\ h.Saldo = 13000
           /\ Len(RowsOf(detalle, last.id)) = 2

\* a is the beginning of b
IsPrefix(a, b) == Len(a) <= Len(b) /\ SubSeq(b, 1, Len(a)) = a

\* d.get(m, 0) on the dict of totals_by_payment_method
TotalOf(t, m) == IF m \in DOMAIN t THEN t[m] ELSE 0

\* C22: FlujoCaja and Gastos only grow at the end: no step changes or removes a
\* row; a successful register_payment appends exactly one FlujoCaja row,
\* with this call's prod_now and domicilio_now (what it returns, at most the
\* amount of the call together) and the order's new Saldo_pendiente; create,
\* edit and delete append nothing.
C22_LedgerAppendOnly ==
    [][ /\ IsPrefix(flujo, flujo')
        /\ IsPrefix(gastos, gastos')
        /\ last'.op \in {"create", "edit", "delete"} => flujo' = flujo /\ gastos' = gastos
        /\ (last'.op = "pay" /\ last'.raised) => flujo' = flujo /\ gastos' = gastos
        /\ (last'.op = "pay" /\ ~last'.raised) =>
              /\ Len(flujo') = Len(flujo) + 1
              /\ gastos' = gastos
              /\ LET row == flujo'[Len(flujo')]
                 IN  /\ row.ID = last'.id
                     /\ row.Prod = last'.ret.prod_paid
                     /\ row.Dom = last'.ret.domicilio_paid
                     /\ row.Prod >= 0 /\ row.Dom >= 0
                     /\ row.Prod + row.Dom <= last'.monto
                     /\ row.Saldo = OrderOf(pedidos', last'.id).Saldo
                     /\ row.Saldo = last'.ret.saldo_total
      ]_vars

\* A second payment on an order, after a transfer, and then its deletion: the
\* three rows are still there
C22_Witness ==
    /\ last.op = "delete" /\ ~last.raised
    /\ Len(flujo) = 3
    /\ flujo[1].ID = last.id /\ flujo[1].Prod = 5000 /\ flujo[1].Dom = 1000
    /\ flujo[3].ID = 0
    /\ gastos # <<>>

\* C23: move_funds appends two rows of order 0 with no delivery amount and no
\* balance, -amount for from_method and +amount for to_method: the total of
\* from_method falls by amount and that of to_method rises by it (no change
\* when they are one method), the other totals and flow_summaries stay, and so
\* do the orders, their lines and the inventory.
C23_MoveFundsZeroSum ==
    [][ last'.op = "move" =>
          \A amount \in Traslados, from_method \in MediosCaja, to_method \in MediosCaja :
            MoveFunds(amount, from_method, to_method) =>
              LET n == Len(flujo)
                  t == totals_by_payment_method(flujo)
                  t2 == totals_by_payment_method(flujo')
              IN  /\ Len(flujo') = n + 2
                  /\ SubSeq(flujo', 1, n) = flujo
                  /\ \A k \in {n + 1, n + 2} :
                        flujo'[k].ID = 0 /\ flujo'[k].Dom = 0 /\ flujo'[k].Saldo = 0
                  /\ flujo'[n + 1].Prod + flujo'[n + 2].Prod = 0
                  /\ \A m \in MediosCaja :
                        TotalOf(t2, m) = TotalOf(t, m)
                            - (IF m = from_method THEN amount ELSE 0)
                            + (IF m = to_method THEN amount ELSE 0)
                  /\ flow_summaries(flujo', gastos') = flow_summaries(flujo, gastos)
                  /\ UNCHANGED <<pedidos, detalle, inv, gastos>>
      ]_vars

\* A transfer between two methods after a payment and an expense
C23_Witness ==
    /\ last.op = "move"
    /\ Len(flujo) = 3
    /\ flujo[1].ID # 0
    /\ flujo[2].Medio # flujo[3].Medio
    /\ flujo[2].Medio = flujo[1].Medio
    /\ gastos # <<>>

\* The sum of the values of the dict t
RECURSIVE SumDict(_, _)
SumDict(t, S) ==
    IF S = {} THEN 0
    ELSE LET m == CHOOSE m \in S : TRUE
         IN  t[m] + SumDict(t, S \ {m})

\* The summaries of a state agree with each other
Agree(df_f, df_g) ==
    LET f == flow_summaries(df_f, df_g)
        t == totals_by_payment_method(df_f)
    IN  /\ f.saldo = f.total_prod + f.total_dom - f.total_gastos
        /\ SumDict(t, DOMAIN t) = f.total_prod + f.total_dom

\* C29: saldo of flow_summaries is total_prod + total_dom - total_gastos, the
\* totals of totals_by_payment_method add up to total_prod + total_dom, and
\* add_expense(concepto, m) lowers saldo by m and leaves total_prod, total_dom
\* and the totals per method as they were.
C29_SummariesAgree ==
    [][ /\ Agree(flujo', gastos')
        /\ last'.op = "expense" =>
              LET f == flow_summaries(flujo, gastos)
                  f2 == flow_summaries(flujo', gastos')
              IN  /\ f2.saldo = f.saldo - last'.monto
                  /\ f2.total_gastos = f.total_gastos + last'.monto
                  /\ f2.total_prod = f.total_prod
                  /\ f2.total_dom = f.total_dom
                  /\ totals_by_payment_method(flujo') = totals_by_payment_method(flujo)
      ]_vars

\* An expense added after payments by two methods, one with a delivery amount
C29_Witness ==
    /\ last.op = "expense"
    /\ Len(flujo) >= 2
    /\ flujo[1].Medio # flujo[2].Medio
    /\ flujo[1].ID # 0 /\ flujo[2].ID # 0
    /\ flujo[1].Dom > 0
    /\ flow_summaries(flujo, gastos).saldo = 7500

\* What FlujoCaja holds as received for order id
FlowsOf(df_f, id) == SumProd(RowsOf(df_f, id)) + SumDom(RowsOf(df_f, id))

\* C28 as stated: for every order the FlujoCaja rows with its id add up to its
\* Monto_pagado, and the order just created has no such row.
C28_Reconciliation ==
    /\ \A i \in DOMAIN pedidos : FlowsOf(flujo, pedidos[i].ID) = pedidos[i].Pagado
    /\ (last.op = "create" /\ ~last.raised) => RowsOf(flujo, last.id) = <<>>

\* C28, amended: the rows of an order add up to at least its Monto_pagado.  A
\* payment on an order whose Monto_pagado is at most its Total_pedido adds a
\* row of exactly the rise of Monto_pagado, so the two stay equal; a payment
\* on an order whose Monto_pagado exceeds its Total_pedido (an edit lowered
\* the total) sets Monto_pagado down to the total and adds a row of 0.  An
\* edit changes neither side, and a new order has no row.
C28_FlowsCoverPaid ==
    [][ \A i \in DOMAIN pedidos' :
          LET id == pedidos'[i].ID
              h2 == pedidos'[i]
          IN  /\ FlowsOf(flujo', id) >= h2.Pagado
              /\ Returned("create", id) => RowsOf(flujo', id) = <<>>
              /\ Returned("edit", id) =>
                    /\ h2.Pagado = OrderOf(pedidos, id).Pagado
                    /\ FlowsOf(flujo', id) = FlowsOf(flujo, id)
              /\ Returned("pay", id) =>
                    LET h == OrderOf(pedidos, id)
                        row == flujo'[Len(flujo')]
                    IN  IF h.Pagado <= h.Total
                        THEN /\ row.Prod + row.Dom = h2.Pagado - h.Pagado
                             /\ FlowsOf(flujo, id) = h.Pagado
                                    => FlowsOf(flujo', id) = h2.Pagado
                        ELSE /\ row.Prod + row.Dom = 0
                             /\ h2.Pagado = h.Total
                             /\ FlowsOf(flujo', id) > h2.Pagado
      ]_vars

\* A payment on an order edited to a total below what was paid: the header
\* now says less than FlujoCaja holds
C28_Witness ==
    /\ last.op = "pay" /\ ~last.raised
    /\ LET h == OrderOf(pedidos, last.id)
       IN  /\ h.Estado = "Entregado"
           /\ h.Pagado = h.Total
           /\ FlowsOf(flujo, last.id) > h.Pagado
           /\ flujo[Len(flujo)].Prod + flujo[Len(flujo)].Dom = 0

\* r is what the four rules give for the raw name x
ByRules(x, r) ==
    LET s == Strip(x)
        ns == norm(s)
        Near(k) == Contains(ns, norm(k)) \/ Contains(norm(k), ns)
    IN  IF s \in KeySeqs THEN r = s
        ELSE IF \E k \in KeySeqs : norm(k) = ns
             THEN r \in KeySeqs /\ norm(r) = ns
        ELSE IF \E k \in KeySeqs : Near(k)
             THEN r \in KeySeqs /\ Near(r)
        ELSE r = s

\* C26: canonical_product_name gives the stripped name when it is a catalog
\* key; else a key equal to it after lower-casing and removing " ", "_" and
\* "-"; else a key whose normalised form contains, or is contained in, the
\* normalised name; else the stripped name.  A catalog key is its own result,
\* and the result of a result is the same result.
C26_Canonicalize ==
    /\ nom # SinNombre /\ nom.n >= 1 =>
          /\ ByRules(nom.in, nom.out1)
          /\ nom.in \in KeySeqs => nom.out1 = nom.in
    /\ nom # SinNombre /\ nom.n = 2 => nom.out2 = nom.out1

\* Both calls made on a padded name that only the containment rule matches
C26_Witness ==
    /\ nom # SinNombre
    /\ nom.n = 2
    /\ nom.in # Strip(nom.in)
    /\ nom.out1 \in KeySeqs
    /\ norm(nom.out1) # norm(nom.in)
    /\ Strip(nom.in) # <<>>

\* The attempts of the call so far: at most Attempts, every one before the
\* last a rate-limit error, each of those followed by its backoff sleep
RetriesBounded ==
    /\ Len(rt.errs) <= Attempts
    /\ \A i \in 1..(Len(rt.errs) - 1) : rt.errs[i] = "quota"
    /\ LET n == Cardinality({i \in DOMAIN rt.errs : rt.errs[i] = "quota"})
       IN  rt.sleeps = [i \in 1..n |-> Min(20, 2 ^ (i - 1))]
    /\ rt.pc = "done" <=> rt.result # ""
    /\ rt.pc = "done" =>
          IF rt.errs # <<>> /\ rt.errs[Len(rt.errs)] = "ok"
          THEN rt.result = (IF rt.fn = "write" THEN "True" ELSE "sheet")
          ELSE rt.result = (IF rt.fn = "write" THEN "False" ELSE "local")

\* C27: a call of safe_write_df_to_sheet or safe_read_sheet_to_df ends; it
\* makes at most 5 attempts, goes on (after a sleep of min(10, 0.5 * 2^attempt)
\* seconds) only after a rate-limit error and stops at the first other error;
\* when it gives up the write returns False and the read the local CSV.
C27_RetriesTerminate == []RetriesBounded /\ <>(rt.pc = "done")

\* A read that gave up after five rate-limit errors, the last sleep 8 s
C27_Witness ==
    /\ rt.pc = "done"
    /\ rt.fn = "read"
    /\ rt.result = "local"
    /\ Len(rt.errs) = Attempts
    /\ Len(rt.sleeps) = Attempts
    /\ rt.sleeps[Attempts] = 16
    /\ rt.wsErrs # <<>>

\* C30 as stated: no two calls of get_next_invoice_number return the same
\* number.
C30_InvoiceNumbersUnique ==
    \A i, j \in DOMAIN fac.nums : i # j => fac.nums[i] # fac.nums[j]

\* C24 as stated: after create_order_with_details or register_payment with a
\* failed write to the spreadsheet, the local tables hold the mutation, and
\* load_df returns them for every table, whether its read of the worksheet
\* succeeds or not.
C24_LocalAuthoritative ==
    /\ (last.op = "create" /\ ~last.raised) => last.id \in Ids(pedidos)
    /\ (last.op = "pay" /\ ~last.raised) =>
          flujo # <<>> /\ flujo[Len(flujo)].ID = last.id
    /\ \A read_ok \in BOOLEAN :
          /\ load_df(pedidos, hoja.Pedidos, read_ok) = pedidos
          /\ load_df(detalle, hoja.Pedidos_detalle, read_ok) = detalle
          /\ load_df(inv, hoja.Inventario, read_ok) = inv
          /\ load_df(flujo, hoja.FlujoCaja, read_ok) = flujo

\* No update is lost: the ids create_order_with_details returned are distinct
\* and are the orders of Pedidos, the stock of every product is minus the
\* quantity of the lines of those orders, and FlujoCaja has one row for every
\* payment that returned.
NoLostUpdate ==
    /\ \A i, j \in DOMAIN ses.devueltos : i # j => ses.devueltos[i] # ses.devueltos[j]
    /\ Len(pedidos) = Len(ses.devueltos)
    /\ Ids(pedidos) = {ses.devueltos[i] : i \in DOMAIN ses.devueltos}
    /\ Ids(detalle) = Ids(pedidos)
    /\ \A p \in Products : StockOf(inv, p) = 0 - QtyOf(detalle, p)
    /\ Len(flujo) = ses.pagos

\* C25: while no session loads between the loads and the saves of another
\* (every load-compute-save runs as one), no update is lost.
C25_SerialNoLostUpdate == ~ses.solapado => NoLostUpdate

\* Two orders created and one payment registered, by both sessions in turn,
\* none overlapping another
C25_Witness ==
    /\ ~ses.solapado
    /\ Len(ses.devueltos) = 2
    /\ ses.pagos >= 1
    /\ \A x \in Sesiones : ses.s[x].pc = "idle"

\* C25, second half: with overlapping sessions an update is lost (this state
\* is reachable, so its negation is not an invariant)
C25_LostUpdate == ses.solapado /\ ~NoLostUpdate /\ \A x \in Sesiones : ses.s[x].pc = "idle"

=============================================================================
